---- MODULE Spec2Model ----
(***************************************************************************)
(* The asynchronous task manager of the rotki frontend                     *)
(* (frontend/app/src/services/rotkehlchen-api.ts, class TaskManager) and   *)
(* the task registry of the store it works on.                             *)
(*                                                                         *)
(* Everything runs on one JavaScript thread: a timer fires monitor(), each *)
(* poll is a promise chain whose reaction (.then / .catch) runs to         *)
(* completion once the backend has answered.  One action of the model is   *)
(* one such run.  Handlers are callbacks the task manager does not own:    *)
(* each invocation either returns or throws an error, chosen by \E.        *)
(*                                                                         *)
(* The balances store actions (frontend/app/src/store/balances/actions.ts) *)
(* submit the tasks: one action of the model is one run of a store action  *)
(* between two awaits (dispatch, the API call settling, the task's result  *)
(* resuming the action).                                                   *)
(***************************************************************************)
EXTENDS Naturals, Integers, Sequences, FiniteSets, Bags, TLC

\* ------------------------------------------------------------------ bounds
MaxTasks == 2        \* task ids the backend hands out: 1..MaxTasks
MaxCalls == 3        \* a task's handler calls are counted up to MaxCalls + 1
MaxInvalidNotes == 2 \* 'Invalid task found' notifications are counted up to it
MaxArrays == 2       \* arrays state.connectedExchanges has referred to
MaxConnected == 2    \* the length of state.connectedExchanges
MaxInFlight == 2     \* exchange actions waiting for the backend

\* ------------------------------------------------------------- vocabulary
Null == 0             \* a task id that is null or undefined (task.id == null)
NoId == 0             \* registerHandler / unregisterHandler without taskId
NoHandler == "undefined" \* this.handler[key] of a key that is not set
NoThrow == "returns"  \* a handler invocation that returns normally

Ids == 1..MaxTasks

\* TaskType (model/task-type), the members the modelled callers use.
TaskTypes ==
    {"QUERY_BALANCES", "ADD_ACCOUNT", "TRADE_HISTORY", "QUERY_EXCHANGE_BALANCES",
     "QUERY_BLOCKCHAIN_BALANCES", "REMOVE_ACCOUNT", "MANUAL_BALANCES"}

\* Handler callbacks: the built-in one and two a caller may register.
Handlers == {"onTradeHistory", "h1", "h2"}

\* e.message of the error a handler may throw.
Errors == {"e1"}
Outcomes == {NoThrow} \cup Errors

\* Strings are sequences, so that the empty message is <<>>.
EmptyMessage == <<>>

VARIABLES
    tasks,        \* store.state.tasks.tasks : key -> Task
    locked,       \* store.state.tasks.locked
    polls,        \* bag of tasks whose queryTaskResult promise is pending
    handler,      \* TaskManager.handler : key -> callback
    calls,        \* per task id, the number of handler invocations made for it
    notes,        \* per task id, 'No handler found' notifications emitted
    invalidNotes, \* 'Invalid task found' notifications emitted
    nextId,       \* the next task id the backend hands out
    last,         \* the operation that ran last, with the handler calls it made
    pending,      \* bag of store-action invocations awaiting their API response
    awaiting,     \* task id -> the invocation that awaits that task's completion
    taskMeta,     \* task id -> the exchange name or chain in the task's meta
    state,        \* BalanceState: connected exchanges, accounts, balances
    view          \* a StatusMixin component's section and the store's statuses

vars ==
    <<tasks, locked, polls, handler, calls, notes, invalidNotes, nextId, last,
      pending, awaiting, taskMeta, state, view>>

\* The state of the balances store actions, which the task manager leaves alone.
balances == <<pending, awaiting, taskMeta, state, view>>

\* ------------------------------------------------------------ data model
\* The fields of BalanceState (store/balances/types.d.ts) the actions below
\* read and write.  connectedExchanges is a reference to an array: arrays
\* holds the exchange arrays created so far and connectedExchanges is the
\* index of the one the state refers to.
BalanceState(exchanges, eth, btc, totals, ethAccounts, btcAccounts) ==
    [connectedExchanges |-> 1, arrays |-> <<exchanges>>,
     eth |-> eth, btc |-> btc, totals |-> totals,
     ethAccounts |-> ethAccounts, btcAccounts |-> btcAccounts]

NoBalances == "{}"

\* BtcAccountData: the standalone accounts and the xpubs.
BtcAccountData(standalone, xpubs) == [standalone |-> standalone, xpubs |-> xpubs]

\* The state of a fresh store: nothing connected, no accounts, no balances.
InitialState ==
    BalanceState(<< >>, NoBalances, NoBalances, NoBalances, << >>,
                 BtcAccountData(<< >>, << >>))

\* Section and Status (store/const): the sections of the application, of
\* which NONE is the default of a component, and the loading states of a
\* section.
SectionNone == "NONE"
Sections == {"asset_movements", "trades", "tx"}
Statuses == {"NONE", "LOADING", "REFRESHING", "PARTIALLY_LOADED", "LOADED"}

\* A component with the StatusMixin: its section, and the status of every
\* section as the store's getter 'status' reports it.
View(section, status) == [section |-> section, status |-> status]

\* A component that has not set its section, in a store that has loaded
\* nothing.
InitialView == View(SectionNone, [s \in Sections |-> "NONE"])

\* Task<TaskMeta>: id, type and the meta fields the task manager reads.
Title(type) == <<"title of", type>>

Task(id, type, ignoreResult) ==
    [id |-> id, type |-> type, ignoreResult |-> ignoreResult, title |-> Title(type)]

\* task.meta, as far as the task manager reads it.
Meta(task) == [title |-> task.title, ignoreResult |-> task.ignoreResult]

\* ActionResult<T>: { result, message }.
ActionResult(result, message) == [result |-> result, message |-> message]

\* What the backend answers for a finished task: with or without a message.
BackendResults ==
    { ActionResult("data", EmptyMessage), ActionResult("data", <<"warning">>) }

\* i18n.tc('task_manager.not_found', 0, {taskId, title})
NotFoundMessage(task) == <<"task_manager.not_found", task.id, task.title>>

\* i18n.tc('task_manager.error', 0, {taskId, title, error})
ErrorMessage(task, error) == <<"task_manager.error", task.id, task.title, error>>

\* ---------------------------------------------------- store: tasks module
\* commit('tasks/add', task): the task is kept under its id.
TasksAdd(ts, task) ==
    [k \in DOMAIN ts \cup {task.id} |-> IF k = task.id THEN task ELSE ts[k]]

\* commit('tasks/lock', id), for every id of a set
TasksLock(lk, ids) == lk \cup ids

\* commit('tasks/unlock', id)
TasksUnlock(st, id) == [st EXCEPT !.locked = @ \ {id}]

\* commit('tasks/remove', id): the task leaves the registry, and its lock with it.
TasksRemove(st, id) ==
    [st EXCEPT !.tasks = [k \in DOMAIN st.tasks \ {id} |-> st.tasks[k]],
               !.locked = @ \ {id}]

\* A handleResult that discards a task without handler silently.
NotifyNothing(st, id) == st

\* notify(`No handler found for task ...`, 'Tasks', Severity.INFO)
NotifyNoHandler(st, id) == [st EXCEPT !.notes[id] = @ + 1]

\* ------------------------------------------------------- handler registry
HandlerKeys == TaskTypes \X (0..MaxTasks)

\* const identifier = taskId ? `${task}-${taskId}` : task
Identifier(type, taskId) == IF taskId # NoId THEN <<type, taskId>> ELSE <<type, NoId>>

\* private handler = { [TaskType.TRADE_HISTORY]: this.onTradeHistory }
InitialHandlers ==
    [k \in HandlerKeys |->
        IF k = <<"TRADE_HISTORY", NoId>> THEN "onTradeHistory" ELSE NoHandler]

\* An unregisterHandler that forgets the task id and deletes the type's handler.
unregisterHandlerOfType(reg, type, taskId) ==
    [reg EXCEPT ![<<type, NoId>>] = NoHandler]

\* A registerHandler that keeps the handler a key already has.
registerHandlerKeepsFirst(reg, type, handlerImpl, taskId) ==
    IF reg[Identifier(type, taskId)] # NoHandler
    THEN reg
    ELSE [reg EXCEPT ![Identifier(type, taskId)] = handlerImpl]

registerHandler(reg, type, handlerImpl, taskId) ==
    [reg EXCEPT ![Identifier(type, taskId)] = handlerImpl]

unregisterHandler(reg, type, taskId) ==
    [reg EXCEPT ![Identifier(type, taskId)] = NoHandler]

\* this.handler[task.type] ?? this.handler[`${task.type}-${task.id}`]
LookupKey(reg, task) ==
    IF reg[<<task.type, NoId>>] # NoHandler
    THEN <<task.type, NoId>>
    ELSE <<task.type, task.id>>

Lookup(reg, task) == reg[LookupKey(reg, task)]

\* ---------------------------------------------------------- TaskManager
\* A result that is null or undefined (handleResult returns on it at once).
NullResult == [null |-> TRUE]

\* One handler(result, task.meta) invocation: it is counted for the task and
\* recorded with the callback that ran, the key it was found under, what it
\* was given, how it ended, and whether the task was in the registry then.
Invoke(st, task, key, h, result, outcome) ==
    [st EXCEPT !.calls[task.id] = IF @ <= MaxCalls THEN @ + 1 ELSE @,
               !.made = Append(@, [handler |-> h, key |-> key, result |-> result,
                                   meta |-> Meta(task), outcome |-> outcome,
                                   inRegistry |-> task.id \in DOMAIN st.tasks])]

\* A handleResult that leaves the task in the registry once the handler is done.
handleResultKeepsTask(st, reg, result, task, o1, o2) ==
    IF task.ignoreResult
    THEN [st |-> TasksRemove(st, task.id), threw |-> NoThrow]
    ELSE LET key == LookupKey(reg, task)
             h == reg[key]
         IN  IF h = NoHandler
             THEN [st |-> TasksRemove(NotifyNoHandler(st, task.id), task.id),
                   threw |-> NoThrow]
             ELSE LET s1 == Invoke(st, task, key, h, result, o1)
                      failure == ActionResult("{}", ErrorMessage(task, o1))
                      s2 == Invoke(s1, task, key, h, failure, o2)
                  IN  IF o1 = NoThrow
                      THEN [st |-> s1, threw |-> NoThrow]
                      ELSE [st |-> s2, threw |-> o2]

\* A handleResult whose second invocation is not confined to the catch block.
handleResultAlwaysRedelivers(st, reg, result, task, o1, o2) ==
    IF task.ignoreResult
    THEN [st |-> TasksRemove(st, task.id), threw |-> NoThrow]
    ELSE LET key == LookupKey(reg, task)
             h == reg[key]
         IN  IF h = NoHandler
             THEN [st |-> TasksRemove(NotifyNoHandler(st, task.id), task.id),
                   threw |-> NoThrow]
             ELSE LET s1 == Invoke(st, task, key, h, result, o1)
                      failure == ActionResult("{}", ErrorMessage(task, o1))
                      s2 == Invoke(s1, task, key, h, failure, o2)
                  IN  IF o2 = NoThrow
                      THEN [st |-> TasksRemove(s2, task.id), threw |-> NoThrow]
                      ELSE [st |-> s2, threw |-> o2]

\* A handleResult that does not look at the task's ignoreResult.
handleResultIgnoringFlag(st, reg, result, task, o1, o2) ==
    LET key == LookupKey(reg, task)
        h == reg[key]
    IN  IF h = NoHandler
        THEN [st |-> TasksRemove(NotifyNoHandler(st, task.id), task.id),
              threw |-> NoThrow]
        ELSE LET s1 == Invoke(st, task, key, h, result, o1)
                 failure == ActionResult("{}", ErrorMessage(task, o1))
                 s2 == Invoke(s1, task, key, h, failure, o2)
             IN  IF o1 = NoThrow
                 THEN [st |-> TasksRemove(s1, task.id), threw |-> NoThrow]
                 ELSE IF o2 = NoThrow
                 THEN [st |-> TasksRemove(s2, task.id), threw |-> NoThrow]
                 ELSE [st |-> s2, threw |-> o2]

\* handleResult(result, task).  o1 is how the handler ends on the result, o2
\* how it ends on the synthetic failure result.  The value is the store state
\* afterwards and the error handleResult throws (NoThrow if it returns).
handleResult(st, reg, result, task, o1, o2) ==
    IF task.ignoreResult
    THEN [st |-> TasksRemove(st, task.id), threw |-> NoThrow]
    ELSE IF result = NullResult
    THEN [st |-> st, threw |-> NoThrow]
    ELSE LET key == LookupKey(reg, task)
             h == reg[key]
         IN  IF h = NoHandler
             THEN [st |-> TasksRemove(NotifyNoHandler(st, task.id), task.id),
                   threw |-> NoThrow]
             ELSE LET s1 == Invoke(st, task, key, h, result, o1)
                      failure == ActionResult("{}", ErrorMessage(task, o1))
                      s2 == Invoke(s1, task, key, h, failure, o2)
                  IN  IF o1 = NoThrow
                      THEN [st |-> TasksRemove(s1, task.id), threw |-> NoThrow]
                      ELSE IF o2 = NoThrow
                      THEN [st |-> TasksRemove(s2, task.id), threw |-> NoThrow]
                      ELSE [st |-> s2, threw |-> o2]

\* The store state the task manager reads and commits to.
Store ==
    [tasks |-> tasks, locked |-> locked, calls |-> calls, notes |-> notes,
     made |-> << >>]

SetStore(st) ==
    /\ tasks' = st.tasks
    /\ locked' = st.locked
    /\ calls' = st.calls
    /\ notes' = st.notes

\* A store-action invocation: the action's name and the exchange name or chain
\* of its payload.
Invocation(name, arg) == [name |-> name, arg |-> arg]

\* What one step of a store action did: the step, whether it was the action
\* failing, the mutations it committed to the balances state, whether it
\* notified the user, whether the action's promise rejected, the task the
\* action submitted, the task whose result it was given, the number of
\* notifications a built-in handler emitted, how the API call of the action
\* settled, what the action returned, the actions it dispatched (for a method
\* of the API client: the methods it called), and how its promise settled.
Act(inv, step) ==
    [name |-> inv.name, arg |-> inv.arg, step |-> step, failed |-> FALSE,
     committed |-> {}, notified |-> FALSE, rejected |-> FALSE,
     task |-> Null, resultOf |-> Null, notifications |-> 0,
     response |-> "", returned |-> "", dispatched |-> {},
     settled |-> NullResult]

NoAct == Act(Invocation("", ""), "none")

\* A built-in handler that treats a message as an error: it notifies and
\* commits nothing.
onTradeHistoryStrict(data, outcome) ==
    [notifications |-> IF data.message # EmptyMessage THEN 1 ELSE 0,
     committed |-> IF data.message = EmptyMessage /\ outcome = NoThrow
                   THEN {"reports/set"} ELSE {}]

\* onTradeHistory(data, _meta): one notification if the result carries a
\* message, then the conversion of the report and commit('reports/set'),
\* which are reached unless the conversion throws.
onTradeHistory(data, outcome) ==
    [notifications |-> IF data.message # EmptyMessage THEN 1 ELSE 0,
     committed |-> IF outcome = NoThrow THEN {"reports/set"} ELSE {}]

\* What the handler calls of one handleResult did, where the handler is the
\* built-in onTradeHistory.
HandlerEffects(made) ==
    LET builtin == {i \in 1..Len(made) : made[i].handler = "onTradeHistory"}
        effect(i) == onTradeHistory(made[i].result, made[i].outcome)
    IN  IF builtin = {}
        THEN NoAct
        ELSE [Act(Invocation("onTradeHistory", ""), "handled") EXCEPT
                 !.notifications =
                     (IF 1 \in builtin THEN effect(1).notifications ELSE 0)
                     + (IF 2 \in builtin THEN effect(2).notifications ELSE 0),
                 !.committed = UNION {effect(i).committed : i \in builtin}]

\* The record of the operation that ran last: its name, the task (or handler
\* key) it was about, the result it handled, the handler calls it made, the
\* ids it issued polls for, and whether it followed its counterpart: a
\* monitor() that polls the task whose poll has just failed, an
\* unregisterHandler that follows the registerHandler of the same key, a
\* result that follows such a pair for the type of its task.
Op(op, id, type) ==
    [op |-> op, id |-> id, type |-> type, ignoreResult |-> FALSE,
     result |-> NullResult, made |-> << >>, polled |-> {}, follows |-> FALSE,
     act |-> NoAct]

Delivery(op, task, result, made) ==
    [Op(op, task.id, task.type) EXCEPT
        !.ignoreResult = task.ignoreResult,
        !.result = result,
        !.made = made,
        !.act = HandlerEffects(made),
        !.follows = /\ op = "result"
                    /\ last.op = "unregister" /\ last.follows
                    /\ last.type = task.type]

\* Polls of the task with this id whose promise is still pending.
Outstanding(id) ==
    LET ts == {t \in BagToSet(polls) : t.id = id}
    IN  IF ts = {} THEN 0 ELSE CopiesIn(CHOOSE t \in ts : TRUE, polls)

\* A monitor() that gives up its pass when the registry holds an invalid task.
ToPollNoneIfInvalid ==
    IF \E k \in DOMAIN tasks : tasks[k].id = Null
    THEN {}
    ELSE {k \in DOMAIN tasks : tasks[k].id \notin locked}

\* A monitor() with one lock for the whole registry.
ToPollNoneIfLocked ==
    IF locked # {}
    THEN {}
    ELSE {k \in DOMAIN tasks : tasks[k].id # Null}

\* A monitor() that polls a task whatever the lock says.
ToPollIgnoringLock == {k \in DOMAIN tasks : tasks[k].id # Null}

\* The tasks of the registry one monitor() pass polls: id not null, not locked.
ToPoll == {k \in DOMAIN tasks : tasks[k].id # Null /\ tasks[k].id \notin locked}

\* The tasks of the registry with a null identifier.
Invalid == {k \in DOMAIN tasks : tasks[k].id = Null}

\* monitor(): one pass over the registry.
Monitor ==
    /\ invalidNotes' = IF invalidNotes + Cardinality(Invalid) <= MaxInvalidNotes
                       THEN invalidNotes + Cardinality(Invalid)
                       ELSE MaxInvalidNotes
    /\ locked' = TasksLock(locked, {tasks[k].id : k \in ToPoll})
    /\ polls' = polls (+) SetToBag({tasks[k] : k \in ToPoll})
    /\ last' = [Op("monitor", Null, "") EXCEPT
                    !.polled = {tasks[k].id : k \in ToPoll},
                    !.follows = last.op = "failed" /\ last.id \in locked' \ locked]
    /\ UNCHANGED <<tasks, handler, calls, notes, nextId, balances>>

\* A .catch that leaves the task locked.
PollFailedKeepsLock(task) ==
    /\ BagIn(task, polls)
    /\ polls' = polls (-) SetToBag({task})
    /\ last' = Delivery("failed", task, NullResult, << >>)
    /\ UNCHANGED <<tasks, locked, calls, notes, handler, invalidNotes, nextId, balances>>

\* The poll is answered without a result (pending: 'No result') or fails with
\* a network error: .catch unlocks the task.
PollFailed(task) ==
    /\ BagIn(task, polls)
    /\ polls' = polls (-) SetToBag({task})
    /\ SetStore(TasksUnlock(Store, task.id))
    /\ last' = Delivery("failed", task, NullResult, << >>)
    /\ UNCHANGED <<handler, invalidNotes, nextId, balances>>

\* A .catch that treats a 404 like any other failure.
PollNotFoundAsFailure(task, o1, o2) ==
    /\ BagIn(task, polls)
    /\ polls' = polls (-) SetToBag({task})
    /\ SetStore(TasksRemove(TasksUnlock(Store, task.id), task.id))
    /\ last' = Delivery("notfound", task,
                        ActionResult("{}", NotFoundMessage(task)), << >>)
    /\ UNCHANGED <<handler, invalidNotes, nextId, balances>>

\* A .catch that hands the not-found result over before it removes the task.
PollNotFoundHandlesFirst(task, o1, o2) ==
    /\ BagIn(task, polls)
    /\ polls' = polls (-) SetToBag({task})
    /\ LET notFound == ActionResult("{}", NotFoundMessage(task))
           r == handleResult(TasksUnlock(Store, task.id), handler, notFound,
                             task, o1, o2)
       IN  /\ SetStore(TasksRemove(r.st, task.id))
           /\ last' = Delivery("notfound", task, notFound, r.st.made)
    /\ UNCHANGED <<handler, invalidNotes, nextId, balances>>

\* The poll is answered 404 (TaskNotFoundError): .catch unlocks, removes and
\* hands the synthetic not-found result to handleResult.  An error thrown by
\* handleResult inside .catch rejects a promise nobody awaits.
PollNotFound(task, o1, o2) ==
    /\ BagIn(task, polls)
    /\ polls' = polls (-) SetToBag({task})
    /\ LET removed == TasksRemove(TasksUnlock(Store, task.id), task.id)
           notFound == ActionResult("{}", NotFoundMessage(task))
           r == handleResult(removed, handler, notFound, task, o1, o2)
       IN  /\ SetStore(r.st)
           /\ last' = Delivery("notfound", task, notFound, r.st.made)
    /\ UNCHANGED <<handler, invalidNotes, nextId, balances>>

\* A promise chain whose .catch does not see what handleResult throws.
PollResultKeepsLockOnThrow(task, result, o1, o2) ==
    /\ BagIn(task, polls)
    /\ polls' = polls (-) SetToBag({task})
    /\ LET r == handleResult(Store, handler, result, task, o1, o2)
       IN  /\ SetStore(r.st)
           /\ last' = Delivery("result", task, result, r.st.made)
    /\ UNCHANGED <<handler, invalidNotes, nextId, balances>>

\* The poll is answered with the task's outcome: .then hands it to
\* handleResult; an error thrown there is caught by the same .catch, which
\* unlocks the task (the error is no TaskNotFoundError).
PollResult(task, result, o1, o2) ==
    /\ BagIn(task, polls)
    /\ polls' = polls (-) SetToBag({task})
    /\ LET r == handleResult(Store, handler, result, task, o1, o2)
       IN  /\ SetStore(IF r.threw = NoThrow THEN r.st ELSE TasksUnlock(r.st, task.id))
           /\ last' = Delivery("result", task, result, r.st.made)
    /\ UNCHANGED <<handler, invalidNotes, nextId, balances>>

\* A store action has the backend's task id and commits the task.  The
\* backend numbers its tasks, so an id is never handed out twice; a response
\* without a task id leaves the task with a null identifier.
AddTask(shape, withId) ==
    /\ IF withId
       THEN /\ nextId <= MaxTasks
            /\ tasks' = TasksAdd(tasks, Task(nextId, shape[1], shape[2]))
            /\ nextId' = nextId + 1
            /\ last' = Op("add", nextId, shape[1])
       ELSE /\ tasks' = TasksAdd(tasks, Task(Null, shape[1], shape[2]))
            /\ nextId' = nextId
            /\ last' = Op("add", Null, shape[1])
    /\ UNCHANGED <<locked, polls, handler, calls, notes, invalidNotes, balances>>

RegisterHandler(type, h, taskId) ==
    /\ handler' = registerHandler(handler, type, h, taskId)
    /\ last' = Op("register", taskId, type)
    /\ UNCHANGED <<tasks, locked, polls, calls, notes, invalidNotes, nextId, balances>>

UnregisterHandler(type, taskId) ==
    /\ handler' = unregisterHandler(handler, type, taskId)
    /\ last' = [Op("unregister", taskId, type) EXCEPT
                    !.follows = /\ last.op = "register"
                                /\ last.type = type
                                /\ last.id = taskId]
    /\ UNCHANGED <<tasks, locked, polls, calls, notes, invalidNotes, nextId, balances>>

\* ------------------------------------------------ store: balances actions
\* The shape of a store action, read off its code: the type of the task it
\* submits (NoTask if it only calls the API), its guard against a running
\* task ("type": isTaskRunning(type); "discriminator": isTaskRunning(type) and
\* the running task's meta names the same exchange or chain; "none"), whether
\* its API call is made inside its try block, the handler key taskCompletion
\* is called with ("type", "id", or "none" if the action does not wait), the
\* mutations it commits with the task's result, what its catch does with an
\* error ("notify", "swallow", or "reject" where there is no catch), and what
\* follows its try / catch statement.
NoTask == "no task"

fetchBalances ==
    [type |-> "QUERY_BALANCES", guard |-> "type", apiInTry |-> TRUE,
     completion |-> "none", ignoreResult |-> TRUE, commits |-> {},
     onError |-> "notify", then |-> "accounts"]

fetchExchangeBalances ==
    [type |-> "QUERY_EXCHANGE_BALANCES", guard |-> "discriminator",
     apiInTry |-> TRUE, completion |-> "id", ignoreResult |-> FALSE,
     commits |-> {"addExchangeBalances"}, onError |-> "notify",
     then |-> "nothing"]

fetchBlockchainBalances ==
    [type |-> "QUERY_BLOCKCHAIN_BALANCES", guard |-> "discriminator",
     apiInTry |-> TRUE, completion |-> "type", ignoreResult |-> FALSE,
     commits |-> {"updateBalances"}, onError |-> "notify", then |-> "nothing"]

deleteXpub ==
    [type |-> "REMOVE_ACCOUNT", guard |-> "type", apiInTry |-> TRUE,
     completion |-> "type", ignoreResult |-> FALSE,
     commits |-> {"updateBalances"}, onError |-> "notify", then |-> "nothing"]

removeAccount ==
    [type |-> "REMOVE_ACCOUNT", guard |-> "none", apiInTry |-> FALSE,
     completion |-> "type", ignoreResult |-> FALSE,
     commits |-> {"updateBalances", "defi/reset"}, onError |-> "notify",
     then |-> "nothing"]

\* addAccounts with a payload of one account: the inner addAccount of that
\* account, its .catch(() => {}), and the statements after Promise.all.
addAccounts ==
    [type |-> "ADD_ACCOUNT", guard |-> "type", apiInTry |-> TRUE,
     completion |-> "id", ignoreResult |-> FALSE,
     commits |-> {"updateBalances"}, onError |-> "swallow",
     then |-> "defi/reset"]

addAccount ==
    [type |-> "ADD_ACCOUNT", guard |-> "none", apiInTry |-> TRUE,
     completion |-> "type", ignoreResult |-> FALSE,
     commits |-> {"updateBalances", "defi/reset"}, onError |-> "notify",
     then |-> "nothing"]

editAccount ==
    [type |-> NoTask, guard |-> "none", apiInTry |-> FALSE,
     completion |-> "none", ignoreResult |-> FALSE,
     commits |-> {"ethAccounts"}, onError |-> "reject", then |-> "nothing"]

fetchManualBalances ==
    [type |-> "MANUAL_BALANCES", guard |-> "none", apiInTry |-> TRUE,
     completion |-> "type", ignoreResult |-> FALSE,
     commits |-> {"manualBalances"}, onError |-> "notify", then |-> "nothing"]

Action(name) ==
    CASE name = "fetchBalances" -> fetchBalances
      [] name = "fetchExchangeBalances" -> fetchExchangeBalances
      [] name = "fetchBlockchainBalances" -> fetchBlockchainBalances
      [] name = "deleteXpub" -> deleteXpub
      [] name = "removeAccount" -> removeAccount
      [] name = "addAccounts" -> addAccounts
      [] name = "addAccount" -> addAccount
      [] name = "editAccount" -> editAccount
      [] name = "fetchManualBalances" -> fetchManualBalances

\* rootGetters['tasks/isTaskRunning'](type): the registry holds a task of the type.
isTaskRunning(type) == \E k \in DOMAIN tasks : tasks[k].type = type

\* rootGetters['tasks/metadata'](type): the exchange name or chain in the meta
\* of the first task of the type.
taskMetadata(type) ==
    LET ks == {k \in DOMAIN tasks : tasks[k].type = type}
    IN  IF ks = {} THEN "" ELSE taskMeta[CHOOSE k \in ks : \A j \in ks : k <= j]

\* An action that never finds its task running.
NoGuard(inv) == FALSE

\* The action returns at once: a task of its type (and of its exchange or
\* chain) is running.
Guard(inv) ==
    LET a == Action(inv.name)
    IN  CASE a.guard = "type" -> isTaskRunning(a.type)
          [] a.guard = "discriminator" ->
                isTaskRunning(a.type) /\ taskMetadata(a.type) = inv.arg
          [] OTHER -> FALSE

\* The callback taskCompletion registers for the action that submitted task id.
Completions ==
    <<"completion of 1", "completion of 2", "completion of 3", "completion of 4">>

CompletionOf(id) == Completions[id]

OwnerOf(h) == CHOOSE id \in DOMAIN Completions : Completions[id] = h

\* The taskId argument of taskCompletion(type, taskId?) for the action of task id.
CompletionKey(a, id) == IF a.completion = "id" THEN id ELSE NoId

\* dispatch('accounts'), commit('defi/reset') or nothing after the try / catch.
Then(a, accountsOk) ==
    CASE a.then = "accounts" ->
            IF accountsOk THEN {"ethAccounts", "btcAccounts"} ELSE {}
      [] a.then = "defi/reset" -> {"defi/reset"}
      [] OTHER -> {}

\* The action fails: its API call rejected (atApi) or its task completed with
\* a message.  An error outside any try block rejects the action's promise;
\* otherwise the catch runs and the statements after it follow.
Failure(inv, atApi, accountsOk) ==
    LET a == Action(inv.name)
        rejects == a.onError = "reject" \/ (atApi /\ ~a.apiInTry)
    IN  [Act(inv, "failed") EXCEPT
            !.failed = TRUE,
            !.rejected = rejects,
            !.notified = ~rejects /\ a.onError = "notify",
            !.committed = IF rejects THEN {} ELSE Then(a, accountsOk)]

\* A store action is dispatched: it returns at once if its guard finds its
\* task running, and issues its API call otherwise.
Dispatch(inv) ==
    /\ IF Guard(inv)
       THEN /\ pending' = pending
            /\ last' = [Op("action", Null, "") EXCEPT !.act = Act(inv, "skipped")]
       ELSE /\ BagCardinality(pending) + nextId <= MaxTasks
            /\ pending' = pending (+) SetToBag({inv})
            /\ last' = [Op("action", Null, "") EXCEPT !.act = Act(inv, "called")]
    /\ UNCHANGED <<tasks, locked, polls, handler, calls, notes, invalidNotes,
                   nextId, awaiting, taskMeta, state, view>>

\* The API call of an invocation rejects.
ApiRejects(inv, accountsOk) ==
    /\ BagIn(inv, pending)
    /\ pending' = pending (-) SetToBag({inv})
    /\ last' = [Op("action", Null, "") EXCEPT !.act = Failure(inv, TRUE, accountsOk)]
    /\ UNCHANGED <<tasks, locked, polls, handler, calls, notes, invalidNotes,
                   nextId, awaiting, taskMeta, state, view>>

\* The API call of an invocation returns: with the data (editAccount, which
\* commits it), or with the id of the backend's task, which the action
\* commits to the registry before it calls taskCompletion and waits
\* (fetchBalances does not wait and goes on to dispatch('accounts')).
ApiReturns(inv, accountsOk) ==
    LET a == Action(inv.name)
    IN  /\ BagIn(inv, pending)
        /\ pending' = pending (-) SetToBag({inv})
        /\ IF a.type = NoTask
           THEN /\ last' = [Op("action", Null, "") EXCEPT
                              !.act = [Act(inv, "completed") EXCEPT
                                          !.committed = a.commits]]
                /\ UNCHANGED <<tasks, handler, awaiting, taskMeta, nextId>>
           ELSE /\ nextId <= MaxTasks
                /\ nextId' = nextId + 1
                /\ tasks' = TasksAdd(tasks, Task(nextId, a.type, a.ignoreResult))
                /\ taskMeta' = [taskMeta EXCEPT ![nextId] = inv.arg]
                /\ IF a.completion = "none"
                   THEN /\ UNCHANGED <<handler, awaiting>>
                        /\ last' = [Op("action", nextId, a.type) EXCEPT
                                      !.act = [Act(inv, "registered") EXCEPT
                                                 !.task = nextId,
                                                 !.committed = Then(a, accountsOk),
                                                 !.notified = ~accountsOk]]
                   ELSE /\ handler' = registerHandler(handler, a.type,
                                         CompletionOf(nextId),
                                         CompletionKey(a, nextId))
                        /\ awaiting' = [k \in DOMAIN awaiting \cup {nextId} |->
                                          IF k = nextId THEN inv ELSE awaiting[k]]
                        /\ last' = [Op("action", nextId, a.type) EXCEPT
                                      !.act = [Act(inv, "registered") EXCEPT
                                                 !.task = nextId]]
        /\ UNCHANGED <<locked, polls, calls, notes, invalidNotes, state, view>>

\* What the handler call of handleResult does when the handler is the callback
\* of taskCompletion: the callback unregisters itself and settles the promise
\* its action awaits, resolving it with the result or, if the result carries a
\* message, rejecting it; the action goes on once handleResult has returned.
Resume(st, task) ==
    IF st.made = << >>
    THEN [handler |-> handler, awaiting |-> awaiting, act |-> NoAct]
    ELSE LET call == st.made[1]
             owner == OwnerOf(call.handler)
             inv == awaiting[owner]
             a == Action(inv.name)
         IN  [handler |-> unregisterHandler(handler, a.type, CompletionKey(a, owner)),
              awaiting |-> [k \in DOMAIN awaiting \ {owner} |-> awaiting[k]],
              act |-> IF call.result.message = EmptyMessage
                      THEN [Act(inv, "completed") EXCEPT
                               !.committed = a.commits \cup Then(a, TRUE),
                               !.task = owner,
                               !.resultOf = task.id]
                      ELSE [Failure(inv, FALSE, TRUE) EXCEPT
                               !.task = owner,
                               !.resultOf = task.id]]

\* The poll of a task is answered with its outcome while store actions wait.
TaskResult(task, result) ==
    /\ BagIn(task, polls)
    /\ polls' = polls (-) SetToBag({task})
    /\ LET r == handleResult(Store, handler, result, task, NoThrow, NoThrow)
           resumed == Resume(r.st, task)
       IN  /\ SetStore(r.st)
           /\ handler' = resumed.handler
           /\ awaiting' = resumed.awaiting
           /\ last' = [Delivery("result", task, result, r.st.made) EXCEPT
                          !.act = resumed.act]
    /\ UNCHANGED <<invalidNotes, nextId, pending, taskMeta, state, view>>

\* The poll of a task is answered 404 while store actions wait.
TaskNotFound(task) ==
    /\ BagIn(task, polls)
    /\ polls' = polls (-) SetToBag({task})
    /\ LET removed == TasksRemove(TasksUnlock(Store, task.id), task.id)
           notFound == ActionResult("{}", NotFoundMessage(task))
           r == handleResult(removed, handler, notFound, task, NoThrow, NoThrow)
           resumed == Resume(r.st, task)
       IN  /\ SetStore(r.st)
           /\ handler' = resumed.handler
           /\ awaiting' = resumed.awaiting
           /\ last' = [Delivery("notfound", task, notFound, r.st.made) EXCEPT
                          !.act = resumed.act]
    /\ UNCHANGED <<invalidNotes, nextId, pending, taskMeta, state, view>>

\* Everything but the balances state, after construction.
Fresh ==
    /\ tasks = << >>
    /\ locked = {}
    /\ polls = EmptyBag
    /\ handler = InitialHandlers
    /\ calls = [i \in Ids |-> 0]
    /\ notes = [i \in Ids |-> 0]
    /\ invalidNotes = 0
    /\ nextId = 1
    /\ last = Op("init", Null, "")
    /\ pending = EmptyBag
    /\ awaiting = << >>
    /\ taskMeta = [i \in Ids |-> ""]

Init == Fresh /\ state = InitialState /\ view = InitialView

\* The inputs the specification draws from.  Tasks: the balance query of
\* fetchBalances, which sets ignoreResult, and the account addition of
\* addAccount / addAccounts, which leaves it unset.  Handlers: h1 for every
\* ADD_ACCOUNT task (addAccount), h2 for the ADD_ACCOUNT task 1 (addAccounts).
Shapes == { <<"QUERY_BALANCES", TRUE>>, <<"ADD_ACCOUNT", FALSE>> }
Registrations == { <<"ADD_ACCOUNT", "h1", NoId>>, <<"ADD_ACCOUNT", "h2", 1>> }

Next ==
    \/ Monitor
    \/ \E shape \in Shapes : AddTask(shape, TRUE)
    \/ \E task \in BagToSet(polls) : PollFailed(task)
    \/ \E task \in BagToSet(polls), o1 \in Outcomes, o2 \in Outcomes :
          calls[task.id] < MaxCalls /\ PollNotFound(task, o1, o2)
    \/ \E task \in BagToSet(polls), result \in BackendResults,
          o1 \in Outcomes, o2 \in Outcomes :
          calls[task.id] < MaxCalls /\ PollResult(task, result, o1, o2)
    \/ \E r \in Registrations : RegisterHandler(r[1], r[2], r[3])
    \/ \E r \in Registrations : UnregisterHandler(r[1], r[3])

Spec == Init /\ [][Next]_vars

\* The same operations with nothing stopping a task's results from being
\* delivered again and again (the call counters stay at MaxCalls + 1).
LiveNext ==
    \/ Monitor
    \/ \E shape \in Shapes : AddTask(shape, TRUE)
    \/ \E task \in BagToSet(polls) : PollFailed(task)
    \/ \E task \in BagToSet(polls), o1 \in Outcomes, o2 \in Outcomes :
          PollNotFound(task, o1, o2)
    \/ \E task \in BagToSet(polls), result \in BackendResults,
          o1 \in Outcomes, o2 \in Outcomes : PollResult(task, result, o1, o2)
    \/ \E r \in Registrations : RegisterHandler(r[1], r[2], r[3])
    \/ \E r \in Registrations : UnregisterHandler(r[1], r[3])

\* The backend answers the outstanding poll of task id with a result or with
\* not-found.
Answer(id) ==
    \E task \in BagToSet(polls), o1 \in Outcomes, o2 \in Outcomes :
        /\ task.id = id
        /\ \/ PollNotFound(task, o1, o2)
           \/ \E result \in BackendResults : PollResult(task, result, o1, o2)

\* The timer keeps firing monitor(), and a task that is polled again and
\* again is eventually answered with a result or with not-found.
LiveSpec ==
    /\ Init
    /\ [][LiveNext]_vars
    /\ WF_vars(Monitor)
    /\ \A id \in Ids : SF_vars(Answer(id))

\* The task manager with callers whose backend response may lack the task id:
\* such a task is committed with a null identifier.  No handler is registered
\* beyond the built-in one.
InvalidNext ==
    \/ Monitor
    \/ \E shape \in Shapes : AddTask(shape, TRUE)
    \/ \E shape \in Shapes : AddTask(shape, FALSE)
    \/ \E task \in BagToSet(polls) : PollFailed(task)
    \/ \E task \in BagToSet(polls), o1 \in Outcomes, o2 \in Outcomes :
          calls[task.id] < MaxCalls /\ PollNotFound(task, o1, o2)
    \/ \E task \in BagToSet(polls), result \in BackendResults,
          o1 \in Outcomes, o2 \in Outcomes :
          calls[task.id] < MaxCalls /\ PollResult(task, result, o1, o2)

SpecInvalid == Init /\ [][InvalidNext]_vars

\* The store actions as the user interface dispatches them, in any order and
\* while earlier invocations are still running, with the task manager polling
\* the tasks they submit.
Dispatches ==
    { Invocation("fetchBalances", ""),
      Invocation("fetchExchangeBalances", "kraken"),
      Invocation("fetchExchangeBalances", "binance"),
      Invocation("fetchBlockchainBalances", "ETH"),
      Invocation("fetchBlockchainBalances", "BTC"),
      Invocation("deleteXpub", "BTC"),
      Invocation("removeAccount", "ETH"),
      Invocation("addAccounts", "ETH"),
      Invocation("addAccount", "ETH"),
      Invocation("editAccount", "ETH"),
      Invocation("fetchManualBalances", "") }

ActionsNext ==
    \/ Monitor
    \/ \E inv \in Dispatches : Dispatch(inv)
    \/ \E inv \in BagToSet(pending), accountsOk \in BOOLEAN :
          ApiRejects(inv, accountsOk)
    \/ \E inv \in BagToSet(pending), accountsOk \in BOOLEAN :
          ApiReturns(inv, accountsOk)
    \/ \E task \in BagToSet(polls) : PollFailed(task)
    \/ \E task \in BagToSet(polls), result \in BackendResults :
          TaskResult(task, result)
    \/ \E task \in BagToSet(polls) : TaskNotFound(task)

SpecActions == Init /\ [][ActionsNext]_vars

\* ------------------------------------------------ store: exchange actions
Exchanges == {"kraken", "binance"}

\* How an API call that answers with a boolean settles.
Settlements == {"true", "false", "rejected"}

Range(seq) == {seq[i] : i \in DOMAIN seq}

\* [...list.slice(0, index), ...list.slice(index + 1)]
Without(list, index) ==
    [i \in 1..(Len(list) - 1) |-> IF i < index THEN list[i] ELSE list[i + 1]]

\* list.indexOf(x) / list.findIndex(value => value === x), 1-based; 0 if absent.
IndexOf(list, x) ==
    IF x \in Range(list)
    THEN CHOOSE i \in DOMAIN list :
            list[i] = x /\ \A j \in 1..(i - 1) : list[j] # x
    ELSE 0

\* state.connectedExchanges: the array the state refers to now.
ConnectedExchanges(st) == st.arrays[st.connectedExchanges]

\* The mutation 'connectedExchanges': the state refers to the payload array.
commitConnectedExchanges(st, exchanges) ==
    [st EXCEPT !.arrays = Append(@, exchanges),
               !.connectedExchanges = Len(st.arrays) + 1]

\* The mutation 'addExchange': the exchange is pushed to the array.
commitAddExchange(st, exchange) ==
    [st EXCEPT !.arrays[st.connectedExchanges] = Append(@, exchange)]

\* The mutation 'removeExchange': the exchange is taken out of the array.
commitRemoveExchange(st, exchange) ==
    LET index == IndexOf(ConnectedExchanges(st), exchange)
    IN  IF index = 0
        THEN st
        ELSE [st EXCEPT !.arrays[st.connectedExchanges] = Without(@, index)]

\* The invocation of removeExchange: `state: { connectedExchanges }` in its
\* parameter list binds the array the state refers to when it is dispatched.
Destructured(inv, st) ==
    [name |-> inv.name, arg |-> inv.arg,
     connectedExchanges |-> st.connectedExchanges]

\* The dispatch of fetchExchangeBalances from inside another action: the
\* calls it adds to those in flight (none if its guard finds its task).
Started(fetch) == IF Guard(fetch) THEN EmptyBag ELSE SetToBag({fetch})

\* addExchanges(exchanges): commits the list and dispatches
\* fetchExchangeBalances for its exchanges one after the other (for the
\* lists drawn here, of one exchange at most, the loop ends with the first).
addExchanges(exchanges) ==
    LET inv == Invocation("addExchanges", "")
        fetches == {Invocation("fetchExchangeBalances", e) : e \in Range(exchanges)}
        started == IF fetches = {} THEN EmptyBag
                   ELSE Started(CHOOSE f \in fetches : TRUE)
    IN  /\ Len(exchanges) <= 1
        /\ Len(state.arrays) < MaxArrays
        /\ BagCardinality(pending) < MaxInFlight
        /\ state' = commitConnectedExchanges(state, exchanges)
        /\ pending' = pending (+) started
        /\ last' = [Op("action", Null, "") EXCEPT
                       !.act = [Act(inv, "called") EXCEPT
                                  !.committed = {"connectedExchanges"},
                                  !.dispatched = fetches]]
        /\ UNCHANGED <<tasks, locked, polls, handler, calls, notes,
                       invalidNotes, nextId, awaiting, taskMeta, view>>

\* setupExchange(payload) up to its await: api.setupExchange is called.
setupExchange(exchange) ==
    LET inv == Invocation("setupExchange", exchange)
    IN  /\ BagCardinality(pending) < MaxInFlight
        /\ pending' = pending (+) SetToBag({inv})
        /\ last' = [Op("action", Null, "") EXCEPT !.act = Act(inv, "called")]
        /\ UNCHANGED <<tasks, locked, polls, handler, calls, notes,
                       invalidNotes, nextId, awaiting, taskMeta, state, view>>

\* The rest of setupExchange, once api.setupExchange has settled.  If it
\* resolved (with true or with false) the action commits 'addExchange',
\* dispatches fetchExchangeBalances without waiting for it and returns what
\* the API resolved with; if it rejected, the catch block shows the error and
\* returns false.
setupExchangeSettles(inv, response) ==
    LET fetch == Invocation("fetchExchangeBalances", inv.arg)
        settled == [Act(inv, "settled") EXCEPT !.response = response]
    IN  /\ inv.name = "setupExchange"
        /\ BagIn(inv, pending)
        /\ IF response = "rejected"
           THEN /\ state' = state
                /\ pending' = pending (-) SetToBag({inv})
                /\ last' = [Op("action", Null, "") EXCEPT
                               !.act = [settled EXCEPT
                                          !.failed = TRUE,
                                          !.notified = TRUE,
                                          !.returned = "false"]]
           ELSE /\ Len(ConnectedExchanges(state)) < MaxConnected
                /\ state' = commitAddExchange(state, inv.arg)
                /\ pending' = (pending (-) SetToBag({inv})) (+) Started(fetch)
                /\ last' = [Op("action", Null, "") EXCEPT
                               !.act = [settled EXCEPT
                                          !.committed = {"addExchange"},
                                          !.dispatched = {fetch},
                                          !.returned = response]]
        /\ UNCHANGED <<tasks, locked, polls, handler, calls, notes,
                       invalidNotes, nextId, awaiting, taskMeta, view>>

\* removeExchange(exchange) up to its await: api.removeExchange is called.
removeExchange(exchange) ==
    LET inv == Invocation("removeExchange", exchange)
    IN  /\ BagCardinality(pending) < MaxInFlight
        /\ pending' = pending (+) SetToBag({Destructured(inv, state)})
        /\ last' = [Op("action", Null, "") EXCEPT !.act = Act(inv, "called")]
        /\ UNCHANGED <<tasks, locked, polls, handler, calls, notes,
                       invalidNotes, nextId, awaiting, taskMeta, state, view>>

\* The rest of removeExchange, once api.removeExchange has settled.  On
\* true the action looks the exchange up in the array it bound at dispatch:
\* the assertion fails if it is not there, and the catch block then shows
\* the error and returns false, as it does when the API rejected;
\* otherwise 'removeExchange' is committed and true is returned.  On false
\* the action returns false.
removeExchangeSettles(inv, response) ==
    LET connectedExchanges == state.arrays[inv.connectedExchanges]
        exchangeIndex == IndexOf(connectedExchanges, inv.arg)
        settled == [Act(inv, "settled") EXCEPT !.response = response]
        caught == [settled EXCEPT !.failed = TRUE, !.notified = TRUE,
                                  !.returned = "false"]
    IN  /\ inv.name = "removeExchange"
        /\ BagIn(inv, pending)
        /\ pending' = pending (-) SetToBag({inv})
        /\ CASE response = "rejected" ->
                  /\ state' = state
                  /\ last' = [Op("action", Null, "") EXCEPT !.act = caught]
             [] response = "false" ->
                  /\ state' = state
                  /\ last' = [Op("action", Null, "") EXCEPT
                                 !.act = [settled EXCEPT !.returned = "false"]]
             [] response = "true" /\ exchangeIndex = 0 ->
                  /\ state' = state
                  /\ last' = [Op("action", Null, "") EXCEPT !.act = caught]
             [] OTHER ->
                  /\ state' = commitRemoveExchange(state, inv.arg)
                  /\ last' = [Op("action", Null, "") EXCEPT
                                 !.act = [settled EXCEPT
                                            !.committed = {"removeExchange"},
                                            !.returned = "true"]]
        /\ UNCHANGED <<tasks, locked, polls, handler, calls, notes,
                       invalidNotes, nextId, awaiting, taskMeta, view>>

\* The exchange actions as the user interface dispatches them, in any order
\* and while earlier invocations are still waiting for the backend; the
\* queries they start fail at their API call.
ExchangeLists == {<< >>} \cup {<<e>> : e \in Exchanges}

ExchangeNext ==
    \/ \E exchanges \in ExchangeLists : addExchanges(exchanges)
    \/ \E exchange \in Exchanges : setupExchange(exchange)
    \/ \E inv \in BagToSet(pending), response \in Settlements :
          setupExchangeSettles(inv, response)
    \/ \E exchange \in Exchanges : removeExchange(exchange)
    \/ \E inv \in BagToSet(pending), response \in Settlements :
          removeExchangeSettles(inv, response)
    \/ \E inv \in BagToSet(pending) :
          inv.name = "fetchExchangeBalances" /\ ApiRejects(inv, TRUE)

SpecExchange == Init /\ [][ExchangeNext]_vars

\* ------------------------------------------------------ store: removeTag
\* A value of type T[] | null.
NullArray == [null |-> TRUE, items |-> << >>]
Array(items) == [null |-> FALSE, items |-> items]

\* GeneralAccountData: address, label, tags.
Account(address, label, tags) ==
    [address |-> address, label |-> label, tags |-> tags]

\* XpubAccountData: xpub, label, tags and the derived addresses.
Xpub(xpub, label, tags, addresses) ==
    [xpub |-> xpub, label |-> label, tags |-> tags, addresses |-> addresses]

\* function removeTag(tags, tagName): null for null tags and for tags that
\* do not hold tagName, else the tags without (the first) tagName.
removeTag(tags, tagName) ==
    LET index == IndexOf(tags.items, tagName)
    IN  IF tags.null
        THEN NullArray
        ELSE IF index = 0
        THEN NullArray
        ELSE Array(Without(tags.items, index))

\* function removeTags(data, tagName): the accounts, each with the tags
\* removeTag gives unless that is null (`if (!tags) continue`).
removeTags(data, tagName) ==
    [i \in DOMAIN data |->
        LET tags == removeTag(data[i].tags, tagName)
        IN  IF tags.null THEN data[i] ELSE [data[i] EXCEPT !.tags = tags]]

\* The action removeTag(tagName): commits 'ethAccounts' and 'btcAccounts'
\* with the tag taken out; an xpub gets removeTag's result as it is.
RemoveTag(tagName) ==
    LET btcAccounts == state.btcAccounts
        standalone == removeTags(btcAccounts.standalone, tagName)
        xpubs == [i \in DOMAIN btcAccounts.xpubs |->
                    LET xpub == btcAccounts.xpubs[i]
                    IN  [xpub EXCEPT
                           !.tags = removeTag(xpub.tags, tagName),
                           !.addresses =
                               IF xpub.addresses.null THEN NullArray
                               ELSE Array(removeTags(xpub.addresses.items,
                                                     tagName))]]
    IN  /\ state' = [state EXCEPT
                        !.ethAccounts = removeTags(state.ethAccounts, tagName),
                        !.btcAccounts = BtcAccountData(standalone, xpubs)]
        /\ last' = [Op("action", Null, "") EXCEPT
                       !.act = [Act(Invocation("removeTag", tagName), "completed")
                                  EXCEPT !.committed =
                                            {"ethAccounts", "btcAccounts"}]]
        /\ UNCHANGED <<tasks, locked, polls, handler, calls, notes,
                       invalidNotes, nextId, pending, awaiting, taskMeta, view>>

\* The inputs: the tags a and b, tag lists without repetitions, one ETH
\* account, one standalone BTC account and one xpub whose derived addresses
\* are null or one address.
TagNames == {"a", "b"}
TagLists == {NullArray, Array(<< >>), Array(<<"a">>), Array(<<"a", "b">>)}

TaggedStates ==
    { [InitialState EXCEPT
          !.ethAccounts = <<Account("0x1", "main", eth)>>,
          !.btcAccounts =
              BtcAccountData(<<Account("bc1", "cold", standalone)>>,
                             <<Xpub("xpub1", "wallet", xpub, addresses)>>)] :
        eth \in TagLists, standalone \in TagLists, xpub \in TagLists,
        addresses \in {NullArray} \cup
                      {Array(<<Account("bc2", "", tags)>>) : tags \in TagLists} }

TagsInit == Fresh /\ state \in TaggedStates /\ view = InitialView

TagsNext == \E tagName \in TagNames : RemoveTag(tagName)

SpecTags == TagsInit /\ [][TagsNext]_vars

\* -------------------------------------------------- store: updateBalances
\* payload.chain: ETH, BTC, or not set.
NoChain == ""
Chains == {NoChain, "ETH", "BTC"}

\* A key of perAccount that is not there.
Undefined == "undefined"

\* BlockchainBalances: perAccount (ETH and BTC, each of which may be missing)
\* and totals.
BlockchainBalances(ethBalances, btcBalances, totals) ==
    [perAccount |-> [ETH |-> ethBalances, BTC |-> btcBalances],
     totals |-> totals]

\* x ?? {}
OrEmpty(x) == IF x = Undefined THEN NoBalances ELSE x

\* The mutations 'updateEth', 'updateBtc', 'updateTotals', 'ethAccounts' and
\* 'btcAccounts': each assigns its payload to its field of the state.
commitUpdateEth(st, payload) == [st EXCEPT !.eth = payload]
commitUpdateBtc(st, payload) == [st EXCEPT !.btc = payload]
commitUpdateTotals(st, totals) == [st EXCEPT !.totals = totals]
commitAccounts(st, fetched) ==
    [st EXCEPT !.ethAccounts = fetched.ethAccounts,
               !.btcAccounts = fetched.btcAccounts]

\* What updateBalances commits of the balances, given which chains it takes
\* as due.
Updated(st, payload, ethDue, btcDue) ==
    LET s1 == IF ethDue
              THEN commitUpdateEth(st, OrEmpty(payload.perAccount.ETH))
              ELSE st
        s2 == IF btcDue
              THEN commitUpdateBtc(s1, OrEmpty(payload.perAccount.BTC))
              ELSE s1
    IN  commitUpdateTotals(s2, payload.totals)

\* An updateBalances that does not look at the chain.
updateBalancesOfBothChains(chain, payload, accountsOk, fetched) ==
    LET inv == Invocation("updateBalances", chain)
        s1 == Updated(state, payload, TRUE, TRUE)
    IN  /\ state' = IF accountsOk THEN commitAccounts(s1, fetched) ELSE s1
        /\ last' = [Op("action", Null, "") EXCEPT
                       !.act = [Act(inv, "completed") EXCEPT
                                  !.committed =
                                      {"updateEth", "updateBtc", "updateTotals"}
                                      \cup Then([then |-> "accounts"], accountsOk),
                                  !.notified = ~accountsOk,
                                  !.dispatched = {Invocation("accounts", "")}]]
        /\ UNCHANGED <<tasks, locked, polls, handler, calls, notes,
                       invalidNotes, nextId, pending, awaiting, taskMeta, view>>

\* updateBalances({chain, balances}): commits 'updateEth' unless the chain
\* is BTC, 'updateBtc' unless the chain is ETH, then 'updateTotals', and
\* dispatches 'accounts', which commits the accounts the backend returns or,
\* if the backend fails, notifies.
updateBalances(chain, payload, accountsOk, fetched) ==
    LET inv == Invocation("updateBalances", chain)
        ethDue == chain = NoChain \/ chain = "ETH"
        btcDue == chain = NoChain \/ chain = "BTC"
        s1 == Updated(state, payload, ethDue, btcDue)
    IN  /\ state' = IF accountsOk THEN commitAccounts(s1, fetched) ELSE s1
        /\ last' = [Op("action", Null, "") EXCEPT
                       !.act = [Act(inv, "completed") EXCEPT
                                  !.committed =
                                      (IF ethDue THEN {"updateEth"} ELSE {})
                                      \cup (IF btcDue THEN {"updateBtc"} ELSE {})
                                      \cup {"updateTotals"}
                                      \cup Then([then |-> "accounts"], accountsOk),
                                  !.notified = ~accountsOk,
                                  !.dispatched = {Invocation("accounts", "")}]]
        /\ UNCHANGED <<tasks, locked, polls, handler, calls, notes,
                       invalidNotes, nextId, pending, awaiting, taskMeta, view>>

\* The inputs: balances with or without each chain's entry, and the accounts
\* the backend returns to 'accounts'.
Payloads ==
    { BlockchainBalances(ethBalances, btcBalances, totals) :
        ethBalances \in {Undefined, "eth1", "eth2"},
        btcBalances \in {Undefined, "btc1", "btc2"},
        totals \in {"totals1", "totals2"} }

Fetched ==
    { [ethAccounts |-> ethAccounts,
       btcAccounts |-> BtcAccountData(<< >>, << >>)] :
        ethAccounts \in {<< >>, <<Account("0x1", "main", NullArray)>>} }

UpdateNext ==
    \E chain \in Chains, payload \in Payloads, accountsOk \in BOOLEAN,
       fetched \in Fetched :
          updateBalances(chain, payload, accountsOk, fetched)

SpecUpdate == Init /\ [][UpdateNext]_vars

\* ------------------------------------------------- API client: task polling
\* The response of GET /tasks/{id}: the HTTP status and the envelope's
\* result, which holds the task's outcome (NullResult while the task is
\* pending), and message.
Response(status, outcome) ==
    [status |-> status, result |-> [outcome |-> outcome], message |-> << >>]

Responses ==
    {Response(404, NullResult), Response(200, NullResult), Response(500, NullResult)}
    \cup {Response(200, outcome) : outcome \in BackendResults}

\* How a promise settles: resolved with a value, or rejected with an error of
\* a class.
Resolved(value) == [kind |-> "resolved", value |-> value, message |-> << >>]
Rejected(class, message) == [kind |-> class, value |-> NullResult, message |-> message]

\* handleResponse(response): the envelope's result of a 200 response, and an
\* Error with the envelope's message otherwise.
handleResponse(response) ==
    IF response.status = 200
    THEN Resolved(response.result)
    ELSE Rejected("Error", response.message)

\* A queryTaskResult that takes a response without outcome for a lost task.
queryTaskResultPendingAsNotFound(id, response) ==
    IF response.status = 404 \/ response.result.outcome = NullResult
    THEN Rejected("TaskNotFoundError", <<"Task with id", id, "not found">>)
    ELSE Resolved(response.result.outcome)

\* queryTaskResult(id): how the promise it returns settles on a response.
queryTaskResult(id, response) ==
    IF response.status = 404
    THEN Rejected("TaskNotFoundError", <<"Task with id", id, "not found">>)
    ELSE LET handled == handleResponse(response)
         IN  IF handled.kind # "resolved"
             THEN handled
             ELSE IF handled.value.outcome # NullResult
                  THEN Resolved(handled.value.outcome)
                  ELSE Rejected("Error", <<"No result">>)

\* The backend answers the poll of a task: the reaction of monitor()'s promise
\* chain follows from how queryTaskResult settles.
Respond(task, response, o1, o2) ==
    LET settled == queryTaskResult(task.id, response)
    IN  CASE settled.kind = "resolved" -> PollResult(task, settled.value, o1, o2)
          [] settled.kind = "TaskNotFoundError" -> PollNotFound(task, o1, o2)
          [] OTHER -> PollFailed(task)

\* Tasks handled by the built-in handler or by none: the trade history query,
\* with and without ignoreResult, and the balance query of fetchBalances.
BackendShapes ==
    { <<"TRADE_HISTORY", FALSE>>, <<"TRADE_HISTORY", TRUE>>,
      <<"QUERY_BALANCES", TRUE>> }

BackendNext ==
    \/ Monitor
    \/ \E shape \in BackendShapes : AddTask(shape, TRUE)
    \/ \E task \in BagToSet(polls), response \in Responses,
          o1 \in Outcomes, o2 \in Outcomes :
          calls[task.id] < MaxCalls /\ Respond(task, response, o1, o2)

SpecBackend == Init /\ [][BackendNext]_vars

\* ---------------------------------------------- API client: unlocking a user
\* The response of PATCH /users/{name} and PUT /users: the HTTP status and
\* the envelope's result and message.
AccountResponse(status, result, message) ==
    [status |-> status, result |-> result, message |-> message]

\* The statuses the validateStatus predicates of the two requests accept.
validStatus == {200, 400, 409}
validAccountOperationStatus == {200, 300, 400, 401, 409}

\* An axios request: the promise resolves with the response if validateStatus
\* accepts its status and rejects otherwise.
Request(response, validateStatus) ==
    IF response.status \in validateStatus
    THEN Resolved(response)
    ELSE Rejected("Error", <<"Request failed with status code", response.status>>)

\* The keys of the sync conflict payload on the wire and in memory.
CamelCase ==
    [local_size |-> "localSize",
     remote_size |-> "remoteSize",
     remote_last_modified |-> "remoteLastModified"]

\* axiosCamelCaseTransformer(data): the object with every key in camelCase.
axiosCamelCaseTransformer(data) ==
    [key \in {CamelCase[k] : k \in DOMAIN data} |->
        data[CHOOSE k \in DOMAIN data : CamelCase[k] = key]]

\* new SyncConflictError(message, payload)
SyncConflictError(message, payload) ==
    [kind |-> "SyncConflictError", value |-> NullResult, message |-> message,
     payload |-> payload]

\* A login that leaves a 300 response to handleResponse.
loginWithoutConflict(response) ==
    LET sent == Request(response, validAccountOperationStatus)
    IN  IF sent.kind # "resolved" THEN sent ELSE handleResponse(response)

\* login(name, password, syncApproval): how its promise settles on a response.
login(response) ==
    LET sent == Request(response, validAccountOperationStatus)
    IN  IF sent.kind # "resolved"
        THEN sent
        ELSE IF response.status = 300
        THEN SyncConflictError(response.message,
                               axiosCamelCaseTransformer(response.result))
        ELSE handleResponse(response)

\* registerUser(name, password, ...): how its promise settles on a response.
registerUser(response) ==
    LET sent == Request(response, validStatus)
    IN  IF sent.kind # "resolved" THEN sent ELSE handleResponse(response)

\* unlockUser(payload): the method it calls and how its promise settles.
unlockUser(payload, response) ==
    IF payload.create
    THEN [called |-> "registerUser", settled |-> registerUser(response)]
    ELSE [called |-> "login", settled |-> login(response)]

\* unlockUser is called and the backend answers.
UnlockUser(payload, response) ==
    LET inv == Invocation("unlockUser", payload.username)
        unlocked == unlockUser(payload, response)
    IN  /\ last' = [Op("api", Null, "") EXCEPT
                       !.act = [Act(inv, "settled") EXCEPT
                                  !.dispatched = {unlocked.called},
                                  !.settled = unlocked.settled]]
        /\ UNCHANGED <<tasks, locked, polls, handler, calls, notes,
                       invalidNotes, nextId, pending, awaiting, taskMeta,
                       state, view>>

\* The inputs: payloads with create set and unset, and the backend's answers:
\* the account state, a sync conflict with the sizes and the modification time
\* the backend reports of the local and the remote database, and failures.
UnlockPayloads ==
    { [create |-> create, username |-> "user"] : create \in BOOLEAN }

ConflictPayloads ==
    UNION { [keys -> {"1", "2", "3"}] : keys \in SUBSET DOMAIN CamelCase }

AccountResponses ==
    {AccountResponse(200, [premium |-> premium], << >>) : premium \in BOOLEAN}
    \cup {AccountResponse(300, payload, message) :
            payload \in ConflictPayloads,
            message \in {<<"conflict">>, <<"remote is newer">>}}
    \cup {AccountResponse(status, NullResult, <<"failed">>) :
            status \in {400, 401, 409, 500}}

LoginNext ==
    \E payload \in UnlockPayloads, response \in AccountResponses :
        UnlockUser(payload, response)

SpecLogin == Init /\ [][LoginNext]_vars

\* ---------------------------------------------------- store: addAccounts
\* address.toLocaleLowerCase(), for the addresses drawn.
toLocaleLowerCase(address) ==
    CASE address = "0xAB" -> "0xab"
      [] address = "0xCD" -> "0xcd"
      [] OTHER -> address

\* The addresses of the accounts the state tracks for a blockchain.
Tracked(st, blockchain) ==
    IF blockchain = "ETH"
    THEN {account.address : account \in Range(st.ethAccounts)}
    ELSE {account.address : account \in Range(st.btcAccounts.standalone)}
         \cup UNION { IF xpub.addresses.null THEN {}
                      ELSE {account.address : account \in Range(xpub.addresses.items)} :
                      xpub \in Range(st.btcAccounts.xpubs) }

\* state.ethAccounts.map(address => address.address.toLocaleLowerCase())
existingAddresses(st) ==
    {toLocaleLowerCase(account.address) : account \in Range(st.ethAccounts)}

\* payload.filter(value => !existingAddresses.includes(...)): the addresses
\* of the payload that addAccounts takes as new.
NewAccounts(st, payload) ==
    SelectSeq(payload,
              LAMBDA address : toLocaleLowerCase(address) \notin existingAddresses(st))

\* One call of the inner addAccount(blockchain, value): the blockchain, the
\* address, and the accounts of the addAccounts invocation it belongs to.
Addition(blockchain, address, accounts) ==
    [name |-> "addAccounts", arg |-> blockchain, address |-> address,
     accounts |-> accounts]

\* The additions of the same addAccounts invocation that have not settled:
\* their API call or their task is outstanding.
Unsettled(add, pend, await) ==
    {other \in BagToSet(pend) \cup Range(await) :
        /\ other.name = "addAccounts"
        /\ other.arg = add.arg
        /\ other.accounts = add.accounts}

\* A Promise.all over additions whose failures are not caught: the first
\* failure ends the wait and nothing is reset.
AfterAdditionUncaught(add, failed, pend, await) ==
    IF ~failed /\ Unsettled(add, pend, await) = {}
    THEN [committed |-> {"defi/reset"}, dispatched |-> {"resetDefiStatus"}]
    ELSE [committed |-> {}, dispatched |-> {}]

\* What follows the settling of an addition: every addition ends in
\* .catch(() => {}), so Promise.all resolves once all of them have settled,
\* and commit('defi/reset') and dispatch('resetDefiStatus') follow.
AfterAddition(add, failed, pend, await) ==
    IF Unsettled(add, pend, await) = {}
    THEN [committed |-> {"defi/reset"}, dispatched |-> {"resetDefiStatus"}]
    ELSE [committed |-> {}, dispatched |-> {}]

\* What an addition's step did, as the record of the last operation.
AdditionAct(add, step) ==
    [Act(Invocation(add.name, add.arg), step) EXCEPT !.response = add.address]

\* addAccounts({blockchain, payload}) up to its first await: the guard, the
\* filter of the payload, the notification if nothing is new, and otherwise
\* the calls of addAccount, each of which issues its API call at once.
AddAccounts(blockchain, payload) ==
    LET inv == Invocation("addAccounts", blockchain)
        accounts == NewAccounts(state, payload)
        additions == {Addition(blockchain, accounts[i], accounts) :
                         i \in DOMAIN accounts}
    IN  /\ CASE isTaskRunning("ADD_ACCOUNT") ->
                  /\ pending' = pending
                  /\ last' = [Op("action", Null, "") EXCEPT
                                 !.act = Act(inv, "skipped")]
             [] accounts = << >> ->
                  /\ pending' = pending
                  /\ last' = [Op("action", Null, "") EXCEPT
                                 !.act = [Act(inv, "nothing new") EXCEPT
                                            !.notified = TRUE,
                                            !.notifications = 1,
                                            !.returned = "INFO"]]
             [] OTHER ->
                  /\ Len(accounts) + BagCardinality(pending) + nextId - 1
                        <= MaxTasks
                  /\ \A add \in additions : Unsettled(add, pending, awaiting) = {}
                  /\ pending' = pending (+) SetToBag(additions)
                  /\ last' = [Op("action", Null, "") EXCEPT
                                 !.act = [Act(inv, "called") EXCEPT
                                            !.dispatched = Range(accounts)]]
        /\ UNCHANGED <<tasks, locked, polls, handler, calls, notes,
                       invalidNotes, nextId, awaiting, taskMeta, state, view>>

\* api.addBlockchainAccount of an addition rejects: the addition's catch
\* swallows the error.
AdditionRejects(add) ==
    LET after == AfterAddition(add, TRUE, pending', awaiting')
    IN  /\ BagIn(add, pending)
        /\ add.name = "addAccounts"
        /\ pending' = pending (-) SetToBag({add})
        /\ awaiting' = awaiting
        /\ last' = [Op("action", Null, "") EXCEPT
                       !.act = [AdditionAct(add, "failed") EXCEPT
                                  !.failed = TRUE,
                                  !.committed = after.committed,
                                  !.dispatched = after.dispatched]]
        /\ UNCHANGED <<tasks, locked, polls, handler, calls, notes,
                       invalidNotes, nextId, taskMeta, state, view>>

\* api.addBlockchainAccount of an addition returns the task id: the task is
\* added to the registry and taskCompletion(taskType, `${taskId}`) registers
\* its callback for the task.
AdditionReturns(add) ==
    /\ BagIn(add, pending)
    /\ add.name = "addAccounts"
    /\ nextId <= MaxTasks
    /\ pending' = pending (-) SetToBag({add})
    /\ nextId' = nextId + 1
    /\ tasks' = TasksAdd(tasks, Task(nextId, "ADD_ACCOUNT", FALSE))
    /\ taskMeta' = [taskMeta EXCEPT ![nextId] = add.arg]
    /\ handler' = registerHandler(handler, "ADD_ACCOUNT", CompletionOf(nextId),
                                  nextId)
    /\ awaiting' = [k \in DOMAIN awaiting \cup {nextId} |->
                      IF k = nextId THEN add ELSE awaiting[k]]
    /\ last' = [Op("action", nextId, "ADD_ACCOUNT") EXCEPT
                   !.act = [AdditionAct(add, "registered") EXCEPT
                              !.task = nextId]]
    /\ UNCHANGED <<locked, polls, calls, notes, invalidNotes, state, view>>

\* The balances the backend returns for an added account, and the accounts
\* it reports afterwards.
AddedBalances(blockchain) ==
    IF blockchain = "ETH"
    THEN BlockchainBalances("eth1", Undefined, "totals1")
    ELSE BlockchainBalances(Undefined, "btc1", "totals1")

WithAccount(st, add) ==
    LET account == Account(add.address, "", NullArray)
    IN  IF add.arg = "ETH"
        THEN [ethAccounts |-> Append(st.ethAccounts, account),
              btcAccounts |-> st.btcAccounts]
        ELSE [ethAccounts |-> st.ethAccounts,
              btcAccounts |-> [st.btcAccounts EXCEPT
                                 !.standalone = Append(@, account)]]

\* The callback of taskCompletion has been given the result of an addition's
\* task (delivered has the handler calls made): the addition goes on with
\* dispatch('updateBalances') if the result has no message and fails
\* otherwise; then what follows the settling of an addition.
AdditionSettles(op, task, result, delivered, accountsOk) ==
    LET resumed == Resume(delivered, task)
        owner == OwnerOf(delivered.made[1].handler)
        add == awaiting[owner]
        failed == result.message # EmptyMessage
        after == AfterAddition(add, failed, pending, resumed.awaiting)
        updated == Updated(state, AddedBalances(add.arg),
                           add.arg = "ETH", add.arg = "BTC")
    IN  /\ delivered.made # << >>
        /\ SetStore(delivered)
        /\ handler' = resumed.handler
        /\ awaiting' = resumed.awaiting
        /\ state' = IF failed THEN state
                    ELSE IF accountsOk
                    THEN commitAccounts(updated, WithAccount(state, add))
                    ELSE updated
        /\ last' = [Delivery(op, task, result, delivered.made) EXCEPT
                       !.act = [AdditionAct(add, IF failed THEN "failed"
                                                 ELSE "completed") EXCEPT
                                  !.failed = failed,
                                  !.task = owner,
                                  !.resultOf = task.id,
                                  !.notified = ~failed /\ ~accountsOk,
                                  !.committed =
                                      (IF failed THEN {}
                                       ELSE {"updateBalances"})
                                      \cup after.committed,
                                  !.dispatched = after.dispatched]]

\* The poll of an addition's task is answered with its outcome.
AdditionResult(task, result, accountsOk) ==
    /\ BagIn(task, polls)
    /\ polls' = polls (-) SetToBag({task})
    /\ AdditionSettles("result", task, result,
                       handleResult(Store, handler, result, task,
                                    NoThrow, NoThrow).st,
                       accountsOk)
    /\ UNCHANGED <<invalidNotes, nextId, pending, taskMeta, view>>

\* The poll of an addition's task is answered 404.
AdditionNotFound(task) ==
    /\ BagIn(task, polls)
    /\ polls' = polls (-) SetToBag({task})
    /\ LET removed == TasksRemove(TasksUnlock(Store, task.id), task.id)
           notFound == ActionResult("{}", NotFoundMessage(task))
       IN  AdditionSettles("notfound", task, notFound,
                           handleResult(removed, handler, notFound, task,
                                        NoThrow, NoThrow).st,
                           TRUE)
    /\ UNCHANGED <<invalidNotes, nextId, pending, taskMeta, view>>

\* The inputs: payloads of one or two addresses for either blockchain, in
\* states that track none or one account of each.
AccountPayloads ==
    { <<"ETH", <<"0xAB">> >>, <<"ETH", <<"0xab", "0xcd">> >>,
      <<"BTC", <<"bc1q">> >> }

TrackedStates ==
    { [InitialState EXCEPT
          !.ethAccounts = ethAccounts,
          !.btcAccounts = BtcAccountData(standalone, << >>)] :
        ethAccounts \in {<< >>, <<Account("0xab", "main", NullArray)>>},
        standalone \in {<< >>, <<Account("bc1q", "cold", NullArray)>>} }

AccountsInit == Fresh /\ state \in TrackedStates /\ view = InitialView

AccountsNext ==
    \/ Monitor
    \/ \E input \in AccountPayloads : AddAccounts(input[1], input[2])
    \/ \E add \in BagToSet(pending) : AdditionRejects(add)
    \/ \E add \in BagToSet(pending) : AdditionReturns(add)
    \/ \E task \in BagToSet(polls) : PollFailed(task)
    \/ \E task \in BagToSet(polls), result \in BackendResults,
          accountsOk \in BOOLEAN : AdditionResult(task, result, accountsOk)
    \/ \E task \in BagToSet(polls) : AdditionNotFound(task)

SpecAccounts == AccountsInit /\ [][AccountsNext]_vars

\* ----------------------------------------------------------------- fetch
\* The payload of fetch: newUser, and the exchanges (undefined, or a list).
FetchPayload(newUser, exchanges) ==
    [newUser |-> newUser, exchanges |-> exchanges]

\* fetchExchangeRates and accounts, in the shape of the store actions above:
\* each awaits its API call inside a try block, commits what it was
\* answered, and shows an error in its catch.
fetchExchangeRates ==
    [type |-> NoTask, guard |-> "none", apiInTry |-> TRUE,
     completion |-> "none", ignoreResult |-> FALSE,
     commits |-> {"usdToFiatExchangeRates"}, onError |-> "notify",
     then |-> "nothing"]

accountsAction ==
    [type |-> NoTask, guard |-> "none", apiInTry |-> TRUE,
     completion |-> "none", ignoreResult |-> FALSE,
     commits |-> {"ethAccounts", "btcAccounts"}, onError |-> "notify",
     then |-> "nothing"]

SubAction(name) ==
    CASE name = "fetchExchangeRates" -> fetchExchangeRates
      [] name = "accounts" -> accountsAction
      [] OTHER -> Action(name)

\* A fetch that dispatches fetchBlockchainBalances for new users as well.
StepsWhateverUser(payload) ==
    <<Invocation("fetchExchangeRates", ""), Invocation("fetchBalances", ""),
      Invocation("accounts", "")>>
    \o (IF payload.exchanges.null THEN << >>
        ELSE <<Invocation("addExchanges", "")>>
             \o [i \in DOMAIN payload.exchanges.items |->
                   Invocation("fetchExchangeBalances",
                              payload.exchanges.items[i])])
    \o <<Invocation("fetchBlockchainBalances", "")>>

\* The dispatches of fetch(payload) and of the actions it dispatches, in the
\* order of their statements: fetchExchangeRates; fetchBalances, which ends
\* with dispatch('accounts'); if (exchanges), addExchanges and the
\* fetchExchangeBalances of its loop; if (!newUser), fetchBlockchainBalances.
Steps(payload) ==
    <<Invocation("fetchExchangeRates", ""), Invocation("fetchBalances", ""),
      Invocation("accounts", "")>>
    \o (IF payload.exchanges.null THEN << >>
        ELSE <<Invocation("addExchanges", "")>>
             \o [i \in DOMAIN payload.exchanges.items |->
                   Invocation("fetchExchangeBalances",
                              payload.exchanges.items[i])])
    \o (IF payload.newUser THEN << >>
        ELSE <<Invocation("fetchBlockchainBalances", "")>>)

\* The step of a fetch that is waiting for the backend: the dispatched
\* action, the payload of the fetch and the place of the step in Steps.
FetchStep(payload, at) ==
    [name |-> Steps(payload)[at].name, arg |-> Steps(payload)[at].arg,
     payload |-> payload, at |-> at]

\* The steps whose action would return at once, its guard finding its task
\* running.
Guarded(steps) ==
    {k \in DOMAIN steps :
        /\ steps[k].name \in {"fetchBalances", "fetchExchangeBalances",
                              "fetchBlockchainBalances"}
        /\ Guard(steps[k])}

\* fetch goes on at step k: every dispatch is awaited, so the steps follow
\* one another up to the first that calls the API (at; 0 if fetch returns).
\* addExchanges commits and enters its loop; an action whose guard finds its
\* task running returns at once, and a fetchBalances that does so does not
\* reach its dispatch('accounts').
RECURSIVE Proceed(_, _, _)
Proceed(steps, k, guarded) ==
    IF k > Len(steps)
    THEN [at |-> 0, dispatched |-> << >>]
    ELSE LET rest ==
                 IF steps[k].name = "addExchanges"
                 THEN Proceed(steps, k + 1, guarded)
                 ELSE IF k \in guarded
                 THEN Proceed(steps,
                              IF steps[k].name = "fetchBalances"
                              THEN k + 2 ELSE k + 1,
                              guarded)
                 ELSE [at |-> k, dispatched |-> << >>]
         IN  [at |-> rest.at, dispatched |-> <<steps[k]>> \o rest.dispatched]

\* What fetch does from step k on: the call it waits for next, the
\* dispatches made, and whether 'connectedExchanges' is committed.
GoesOn(payload, k, guarded) ==
    LET next == Proceed(Steps(payload), k, guarded)
    IN  [pending |-> IF next.at = 0 THEN EmptyBag
                     ELSE SetToBag({FetchStep(payload, next.at)}),
         dispatched |-> Range(next.dispatched),
         connects |-> \E d \in Range(next.dispatched) : d.name = "addExchanges"]

Connected(st, payload, goes) ==
    IF goes.connects
    THEN commitConnectedExchanges(st, payload.exchanges.items)
    ELSE st

\* fetch(payload) is dispatched (by the session store, once the user is
\* logged in): up to the API call of fetchExchangeRates.
fetch(payload) ==
    LET goes == GoesOn(payload, 1, Guarded(Steps(payload)))
    IN  /\ pending = EmptyBag
        /\ awaiting = << >>
        /\ pending' = goes.pending
        /\ last' = [Op("action", Null, "") EXCEPT
                       !.act = [Act(Invocation("fetch", ""), "called") EXCEPT
                                  !.dispatched = goes.dispatched]]
        /\ UNCHANGED <<tasks, locked, polls, handler, calls, notes,
                       invalidNotes, nextId, awaiting, taskMeta, state, view>>

\* The API call of a step rejects: the catch of the step's action shows the
\* error, the action returns and fetch goes on.
FetchRejects(step) ==
    LET a == SubAction(step.name)
        goes == GoesOn(step.payload, step.at + 1, Guarded(Steps(step.payload)))
    IN  /\ BagIn(step, pending)
        /\ a.apiInTry /\ a.onError = "notify"
        /\ goes.connects => Len(state.arrays) < MaxArrays
        /\ pending' = (pending (-) SetToBag({step})) (+) goes.pending
        /\ state' = Connected(state, step.payload, goes)
        /\ last' = [Op("action", Null, "") EXCEPT
                       !.act = [Act(step, "failed") EXCEPT
                                  !.failed = TRUE,
                                  !.notified = TRUE,
                                  !.committed =
                                      IF goes.connects
                                      THEN {"connectedExchanges"} ELSE {},
                                  !.dispatched = goes.dispatched]]
        /\ UNCHANGED <<tasks, locked, polls, handler, calls, notes,
                       invalidNotes, nextId, awaiting, taskMeta, view>>

\* The API call of a step returns.  fetchExchangeRates and accounts commit
\* the answer and return; fetchBalances commits its task to the registry and
\* returns (after its dispatch('accounts')); in each case fetch goes on.
\* fetchExchangeBalances and fetchBlockchainBalances commit their task, call
\* taskCompletion and wait.
FetchReturns(step) ==
    LET a == SubAction(step.name)
        goes == GoesOn(step.payload, step.at + 1, Guarded(Steps(step.payload)))
        connected == IF goes.connects THEN {"connectedExchanges"} ELSE {}
    IN  /\ BagIn(step, pending)
        /\ CASE a.type = NoTask ->
                  /\ goes.connects => Len(state.arrays) < MaxArrays
                  /\ pending' = (pending (-) SetToBag({step})) (+) goes.pending
                  /\ state' = Connected(state, step.payload, goes)
                  /\ last' = [Op("action", Null, "") EXCEPT
                                 !.act = [Act(step, "completed") EXCEPT
                                            !.committed = a.commits \cup connected,
                                            !.dispatched = goes.dispatched]]
                  /\ UNCHANGED <<tasks, handler, awaiting, taskMeta, nextId>>
             [] a.type # NoTask /\ a.completion = "none" ->
                  /\ nextId <= MaxTasks
                  /\ nextId' = nextId + 1
                  /\ tasks' = TasksAdd(tasks, Task(nextId, a.type, a.ignoreResult))
                  /\ taskMeta' = [taskMeta EXCEPT ![nextId] = step.arg]
                  /\ pending' = (pending (-) SetToBag({step}))
                                (+) SetToBag({FetchStep(step.payload, step.at + 1)})
                  /\ last' = [Op("action", nextId, a.type) EXCEPT
                                 !.act = [Act(step, "registered") EXCEPT
                                            !.task = nextId,
                                            !.dispatched =
                                               {Steps(step.payload)[step.at + 1]}]]
                  /\ UNCHANGED <<handler, awaiting, state>>
             [] OTHER ->
                  /\ nextId <= MaxTasks
                  /\ nextId' = nextId + 1
                  /\ tasks' = TasksAdd(tasks, Task(nextId, a.type, a.ignoreResult))
                  /\ taskMeta' = [taskMeta EXCEPT ![nextId] = step.arg]
                  /\ pending' = pending (-) SetToBag({step})
                  /\ handler' = registerHandler(handler, a.type,
                                                CompletionOf(nextId),
                                                CompletionKey(a, nextId))
                  /\ awaiting' = [k \in DOMAIN awaiting \cup {nextId} |->
                                    IF k = nextId THEN step ELSE awaiting[k]]
                  /\ last' = [Op("action", nextId, a.type) EXCEPT
                                 !.act = [Act(step, "registered") EXCEPT
                                            !.task = nextId]]
                  /\ UNCHANGED state
        /\ UNCHANGED <<locked, polls, calls, notes, invalidNotes, view>>

\* The balances the backend has for the blockchain query of fetch.
QueriedBalances == BlockchainBalances("eth1", "btc1", "totals1")

\* The result of a task has been handled (delivered has the store and the
\* handler calls made).  If a step of fetch was waiting for it, its action
\* goes on once handleResult has returned: it commits the result
\* (fetchBlockchainBalances through updateBalances) or, if the result
\* carries a message, shows the error; it returns, and fetch goes on with
\* the registry as handleResult has left it.
FetchSettles(op, task, result, delivered) ==
    LET resumed == Resume(delivered, task)
    IN  /\ SetStore(delivered)
        /\ handler' = resumed.handler
        /\ awaiting' = resumed.awaiting
        /\ IF delivered.made = << >>
           THEN /\ last' = Delivery(op, task, result, delivered.made)
                /\ UNCHANGED <<pending, state>>
           ELSE \E step \in {awaiting[OwnerOf(delivered.made[1].handler)]} :
                LET failed == result.message # EmptyMessage
                    updated == IF ~failed /\ step.name = "fetchBlockchainBalances"
                               THEN Updated(state, QueriedBalances, TRUE, TRUE)
                               ELSE state
                    goes == GoesOn(step.payload, step.at + 1,
                                   Guarded(Steps(step.payload))')
                IN  /\ goes.connects => Len(state.arrays) < MaxArrays
                    /\ pending' = pending (+) goes.pending
                    /\ state' = Connected(updated, step.payload, goes)
                    /\ last' = [Delivery(op, task, result, delivered.made) EXCEPT
                                  !.act = [resumed.act EXCEPT
                                             !.dispatched = goes.dispatched]]

\* The poll of a task is answered with its outcome while a fetch runs.
FetchResult(task, result) ==
    /\ BagIn(task, polls)
    /\ polls' = polls (-) SetToBag({task})
    /\ FetchSettles("result", task, result,
                    handleResult(Store, handler, result, task,
                                 NoThrow, NoThrow).st)
    /\ UNCHANGED <<invalidNotes, nextId, taskMeta, view>>

\* The poll of a task is answered 404 while a fetch runs.
FetchNotFound(task) ==
    /\ BagIn(task, polls)
    /\ polls' = polls (-) SetToBag({task})
    /\ LET removed == TasksRemove(TasksUnlock(Store, task.id), task.id)
           notFound == ActionResult("{}", NotFoundMessage(task))
       IN  FetchSettles("notfound", task, notFound,
                        handleResult(removed, handler, notFound, task,
                                     NoThrow, NoThrow).st)
    /\ UNCHANGED <<invalidNotes, nextId, taskMeta, view>>

\* The inputs: fetch for a new user and for a returning one, with no
\* exchanges given and with a list of none, one or two.
FetchPayloads ==
    { FetchPayload(newUser, exchanges) :
        newUser \in BOOLEAN,
        exchanges \in {NullArray, Array(<< >>), Array(<<"kraken">>),
                       Array(<<"kraken", "binance">>)} }

FetchNext ==
    \/ Monitor
    \/ \E payload \in FetchPayloads : fetch(payload)
    \/ \E step \in BagToSet(pending) : FetchRejects(step)
    \/ \E step \in BagToSet(pending) : FetchReturns(step)
    \/ \E task \in BagToSet(polls) : PollFailed(task)
    \/ \E task \in BagToSet(polls), result \in BackendResults :
          FetchResult(task, result)
    \/ \E task \in BagToSet(polls) : FetchNotFound(task)

SpecFetch == Init /\ [][FetchNext]_vars

\* ---------------------------------------------------------- StatusMixin
\* What reading a getter gives: its value, or the failure of its assertion.
Value(value) == [failed |-> FALSE, value |-> value]
AssertionFailed == [failed |-> TRUE, value |-> FALSE]

\* A loading getter that takes a section that is being refreshed as loading.
loadingWhileRefreshing(v) ==
    IF v.section = SectionNone
    THEN AssertionFailed
    ELSE LET status == v.status[v.section]
         IN  Value(~(status = "LOADED" \/ status = "PARTIALLY_LOADED"))

\* get loading()
loading(v) ==
    IF v.section = SectionNone
    THEN AssertionFailed
    ELSE LET status == v.status[v.section]
         IN  Value(~(\/ status = "LOADED"
                     \/ status = "PARTIALLY_LOADED"
                     \/ status = "REFRESHING"))

\* get refreshing()
refreshing(v) ==
    IF v.section = SectionNone
    THEN AssertionFailed
    ELSE LET status == v.status[v.section]
         IN  Value(\/ status = "LOADING"
                   \/ status = "REFRESHING"
                   \/ status = "PARTIALLY_LOADED")

\* A getter of the component is read.
Read(getter, got) ==
    /\ last' = [Op("getter", Null, "") EXCEPT
                   !.act = [Act(Invocation(getter, view.section), "read") EXCEPT
                              !.failed = got.failed,
                              !.returned = IF got.failed THEN ""
                                           ELSE IF got.value THEN "true"
                                           ELSE "false"]]
    /\ UNCHANGED <<tasks, locked, polls, handler, calls, notes, invalidNotes,
                   nextId, pending, awaiting, taskMeta, state, view>>

ReadLoading == Read("loading", loading(view))
ReadRefreshing == Read("refreshing", refreshing(view))

\* The inputs: a component of any section, NONE included, in a store with
\* any status for each section.
Views ==
    { View(section, status) :
        section \in Sections \cup {SectionNone},
        status \in [Sections -> Statuses] }

StatusInit == Fresh /\ state = InitialState /\ view \in Views

StatusNext == ReadLoading \/ ReadRefreshing

SpecStatus == StatusInit /\ [][StatusNext]_vars

\* ------------------------------------------------------------------ claims
\* The task the last operation was about.
LastTask == Task(last.id, last.type, last.ignoreResult)

\* The last operation handed a result (real or not-found) to handleResult.
Delivered == last.op \in {"result", "notfound"}

\* C1: there is never more than one poll outstanding for the same task id: a
\* monitor() pass made while the poll for an id is unanswered issues no second
\* poll for it.
C1_OnePollPerTask == \A id \in Ids : Outstanding(id) <= 1

\* A monitor() pass has just run while the poll of a task was outstanding, and
\* has left that task alone.
C1_Witness ==
    /\ last.op = "monitor"
    /\ \E id \in Ids : /\ id \in DOMAIN tasks
                       /\ Outstanding(id) = 1
                       /\ id \notin last.polled

\* C2, as stated: over its whole life a task has its matching handler invoked
\* exactly once: never more than once, and once when a result reached a
\* handler.
C2_ExactlyOnce ==
    /\ \A id \in Ids : calls[id] <= 1
    /\ Delivered /\ last.made # << >> => calls[last.id] = 1

\* C2, amended: each time a result is handed to the matching handler, the
\* handler is invoked once with it and once more (the same handler) only if
\* that invocation throws; an invocation that returns normally has the task
\* removed, and the handler of a removed task is never invoked again.  So a
\* task whose handler returns on the first result it is given has it invoked
\* exactly once over its whole life.
C2_OncePerDelivery ==
    [][\A id \in Ids :
        /\ calls'[id] # calls[id] =>
             LET m == last'.made
             IN  /\ last'.op \in {"result", "notfound"}
                 /\ last'.id = id
                 /\ m # << >>
                 /\ calls'[id] = calls[id] + Len(m)
                 /\ Len(m) = IF m[1].outcome = NoThrow THEN 1 ELSE 2
                 /\ \A i \in 1..Len(m) : m[i].handler = m[1].handler
                 /\ m[1].outcome = NoThrow =>
                        id \notin DOMAIN tasks' /\ calls'[id] = calls[id] + 1
        /\ id < nextId /\ id \notin DOMAIN tasks => calls'[id] = calls[id]
      ]_vars

\* A task has gone with exactly one handler invocation behind it, and
\* monitor() has run since.
C2_Witness ==
    /\ last.op = "monitor"
    /\ \E id \in Ids : id < nextId /\ id \notin DOMAIN tasks /\ calls[id] = 1

\* C3, as stated: a not-found answer has the task removed and its handler
\* invoked exactly once, with a result whose message is not empty.
C3_NotFoundInvokesOnce ==
    last.op = "notfound" =>
        /\ last.id \notin DOMAIN tasks
        /\ Len(last.made) = 1
        /\ last.made[1].result.message # EmptyMessage

\* C3, amended: a not-found answer has the task unlocked and removed.  If the
\* task does not ignore its result and a handler matches, that handler is
\* invoked with the not-found result, whose message is built from the task's
\* id and title and is not empty: once if it returns, and once more with the
\* synthetic failure result if it throws.  Otherwise no handler is invoked.
C3_NotFound ==
    last.op = "notfound" =>
        /\ last.id \notin DOMAIN tasks
        /\ last.id \notin locked
        /\ Outstanding(last.id) = 0
        /\ IF last.ignoreResult \/ Lookup(handler, LastTask) = NoHandler
           THEN last.made = << >>
           ELSE LET m == last.made
                IN  /\ m # << >>
                    /\ Len(m) = IF m[1].outcome = NoThrow THEN 1 ELSE 2
                    /\ m[1].handler = Lookup(handler, LastTask)
                    /\ m[1].result.message = NotFoundMessage(LastTask)
                    /\ m[1].result.message # EmptyMessage
                    /\ \A i \in 1..Len(m) : ~m[i].inRegistry
                    /\ Len(m) = 2 =>
                         /\ m[2].handler = m[1].handler
                         /\ m[2].result.message # EmptyMessage

\* A not-found answer has reached a handler, which returned.
C3_Witness ==
    /\ last.op = "notfound"
    /\ Len(last.made) = 1
    /\ last.made[1].outcome = NoThrow

\* C4, as stated: when a handler is registered under the type-id key of a
\* task, the task's result goes to that handler, whether or not a type-only
\* handler is registered too; the type-only handler is used when no type-id
\* handler exists.
C4_PrefersTaskIdHandler ==
    Delivered /\ last.made # << >> =>
        LET specific == <<last.type, last.id>>
            general == <<last.type, NoId>>
            used == last.made[1]
        IN  IF handler[specific] # NoHandler
            THEN used.key = specific /\ used.handler = handler[specific]
            ELSE used.key = general /\ used.handler = handler[general]

C6_ResultInvokesOnce ==
    last.op = "result" /\ last.result.message = EmptyMessage =>
        /\ Len(last.made) = 1
        /\ last.made[1].result = last.result
        /\ last.made[1].meta = Meta(LastTask)
        /\ last.id \notin DOMAIN tasks
        /\ notes[last.id] = 0

\* C6, amended: a result with an empty message for a task that does not set
\* ignoreResult and has a matching handler is handed to that handler with the
\* task's meta, and no notification is emitted; if the invocation returns it
\* is the only one and the task is removed.  A task that sets ignoreResult (as
\* the QUERY_BALANCES task of fetchBalances does) is removed with no handler
\* invoked and no notification.
C6_ResultHandled ==
    last.op = "result" /\ last.result.message = EmptyMessage =>
        IF last.ignoreResult
        THEN /\ last.made = << >>
             /\ last.id \notin DOMAIN tasks
             /\ notes[last.id] = 0
        ELSE Lookup(handler, LastTask) # NoHandler =>
             LET m == last.made
             IN  /\ m # << >>
                 /\ m[1].handler = Lookup(handler, LastTask)
                 /\ m[1].result = last.result
                 /\ m[1].meta = Meta(LastTask)
                 /\ notes[last.id] = 0
                 /\ m[1].outcome = NoThrow =>
                      /\ Len(m) = 1
                      /\ last.id \notin DOMAIN tasks
                      /\ last.id \notin locked

\* A result with an empty message has reached a handler, which returned.
C6_Witness ==
    /\ last.op = "result"
    /\ last.result.message = EmptyMessage
    /\ Len(last.made) = 1
    /\ last.made[1].outcome = NoThrow
    /\ last.id \notin DOMAIN tasks

\* C7: a poll that fails for a reason other than not-found leaves the task in
\* the registry and unlocked, with no poll outstanding, invokes no handler and
\* emits nothing; the task is then among those the next monitor() pass polls,
\* and a monitor() pass that comes next locks and polls it.
C7_FailedPollRetried ==
    [][/\ last'.op = "failed" =>
            /\ last'.id \in DOMAIN tasks'
            /\ last'.id \notin locked'
            /\ tasks' = tasks
            /\ calls' = calls
            /\ notes' = notes
            /\ last'.made = << >>
       /\ last.op = "failed" =>
            /\ Outstanding(last.id) = 0
            /\ last.id \in ToPoll
       /\ last.op = "failed" /\ last'.op = "monitor" =>
            /\ last.id \in last'.polled
            /\ last.id \in locked'
            /\ polls' = polls (+) SetToBag({tasks[k] : k \in ToPoll})
            /\ BagIn(tasks[last.id], polls')
      ]_vars

\* The poll of a task failed and the monitor() pass that came next polled the
\* task again.
C7_Witness ==
    /\ last.op = "monitor"
    /\ last.follows
    /\ \E id \in last.polled : Outstanding(id) = 1

\* C9, as stated: a handler that throws on a task's result is invoked a second
\* time with the synthetic failure result (empty result object, message made
\* of the task id, the title and the error's message), and the task is then
\* removed.
C9_ThrowRedeliveredThenRemoved ==
    Delivered /\ last.made # << >> /\ last.made[1].outcome # NoThrow =>
        /\ Len(last.made) = 2
        /\ last.made[2].handler = last.made[1].handler
        /\ last.made[2].result =
             ActionResult("{}", ErrorMessage(LastTask, last.made[1].outcome))
        /\ last.id \notin DOMAIN tasks

\* C10, as stated: whatever the handler does, once a task's result has been
\* handed to it the task is out of the registry, it is not polled again and
\* its handler is not invoked again.
C10_HandlerErrorContained ==
    [][\A id \in Ids :
         calls[id] > 0 =>
            /\ id \notin DOMAIN tasks
            /\ Outstanding(id) = 0
            /\ calls'[id] = calls[id]
      ]_vars

\* C8, as stated: with monitor() firing and the backend eventually answering
\* each task's poll with a result or not-found, every task in the registry is
\* eventually removed from it.
C8_EventuallyRemoved ==
    \A id \in Ids : (id \in DOMAIN tasks) ~> (id \notin DOMAIN tasks)

\* C11: a result (real or not-found) handed over for a task that does not
\* ignore its result while no handler is registered under its type or under
\* its type-id key removes the task, emits exactly one 'No handler found'
\* notification and invokes no handler.
C11_NoHandlerDiscards ==
    [][/\ last'.op \in {"result", "notfound"}
       /\ ~last'.ignoreResult
       /\ handler[<<last'.type, NoId>>] = NoHandler
       /\ handler[<<last'.type, last'.id>>] = NoHandler
       => /\ last'.made = << >>
          /\ calls' = calls
          /\ notes' = [notes EXCEPT ![last'.id] = notes[last'.id] + 1]
          /\ last'.id \notin DOMAIN tasks'
          /\ last'.id \notin locked'
      ]_vars

\* A not-found answer came for a task without handler: the task is gone, one
\* notification is out and no handler ran.
C11_Witness ==
    /\ last.op = "notfound"
    /\ ~last.ignoreResult
    /\ handler[<<last.type, NoId>>] = NoHandler
    /\ handler[<<last.type, last.id>>] = NoHandler
    /\ last.made = << >>
    /\ notes[last.id] = 1
    /\ last.id \notin DOMAIN tasks

\* C12: a task whose id is null is never locked, never polled and never
\* removed from the registry, however many monitor() passes run; the tasks
\* with an id that are not locked are polled by the pass all the same.
C12_InvalidTaskSkipped ==
    /\ [](/\ Null \notin locked
          /\ \A task \in BagToSet(polls) : task.id # Null)
    /\ [][/\ Null \in DOMAIN tasks => Null \in DOMAIN tasks'
          /\ last'.op = "monitor" =>
                 /\ Null \notin last'.polled
                 /\ \A id \in Ids :
                       id \in DOMAIN tasks /\ id \notin locked =>
                          /\ id \in last'.polled
                          /\ BagIn(tasks[id], polls')
         ]_vars

\* Several monitor() passes have run over a registry that holds a task with a
\* null id, and the last one polled another task.
C12_Witness ==
    /\ last.op = "monitor"
    /\ Null \in DOMAIN tasks
    /\ invalidNotes >= 2
    /\ last.polled # {}

\* C13, as stated: the 'Invalid task found' notification of a task with a null
\* id is emitted once in total, however many monitor() passes run while the
\* task is in the registry.
C13_InvalidNotifiedOnce == invalidNotes <= 1

\* C14: the locked set holds exactly the ids of the registry's tasks whose
\* poll is outstanding: a task whose poll has completed (result, failure or
\* not-found) is not locked, and no id of a removed task is locked.
C14_LockedIsOutstanding ==
    /\ locked = {id \in Ids : Outstanding(id) > 0}
    /\ \A id \in locked : id \in DOMAIN tasks
    /\ last.op \in {"failed", "result", "notfound"} =>
          last.id \notin locked /\ Outstanding(last.id) = 0

\* The poll of one task has completed and left the task in the registry
\* without its lock, while the poll of another task is still outstanding.
C14_Witness ==
    /\ last.op \in {"failed", "result"}
    /\ last.id \in DOMAIN tasks
    /\ last.id \notin locked
    /\ \E id \in locked : id # last.id /\ Outstanding(id) = 1

\* C15: one monitor() pass locks and polls every task of the registry that
\* has an id and is not locked, whatever other ids are locked; so the polls of
\* several tasks are outstanding together, and any of them may complete next.
C15_PassPollsEveryUnlocked ==
    /\ [](\A task \in BagToSet(polls) : ENABLED PollFailed(task))
    /\ [][last'.op = "monitor" =>
            /\ \A id \in Ids :
                  id \in DOMAIN tasks /\ id \notin locked =>
                     /\ id \in last'.polled
                     /\ id \in locked'
                     /\ BagIn(tasks[id], polls')
                     /\ ~BagIn(tasks[id], polls)
            /\ locked \subseteq locked'
            /\ \A task \in BagToSet(polls) : BagIn(task, polls')
         ]_vars

\* A monitor() pass has polled a task while the poll of another task was
\* outstanding: two polls are outstanding together.
C15_Witness ==
    /\ last.op = "monitor"
    /\ last.polled # {}
    /\ \E id \in locked \ last.polled : Outstanding(id) = 1
    /\ \A id \in last.polled : Outstanding(id) = 1

\* C16, as stated: however the task-submitting balances actions interleave,
\* the registry never holds two tasks of the same type and the same
\* discriminator (exchange name or chain) at once.
C16_NoDuplicateTasks ==
    \A i \in DOMAIN tasks, j \in DOMAIN tasks :
        i # j => ~(tasks[i].type = tasks[j].type /\ taskMeta[i] = taskMeta[j])

\* C17: fetchBalances, fetchExchangeBalances, fetchBlockchainBalances,
\* deleteXpub or addAccounts dispatched while isTaskRunning reports a task of
\* its type (whose meta, for the two actions with a discriminator, names the
\* same exchange or chain) returns without an API call, without adding a task,
\* without committing a mutation and without a notification.
C17_GuardedActionReturns ==
    [][/\ last'.op = "action"
       /\ last'.act.step \in {"skipped", "called"}
       /\ last'.act.name \in {"fetchBalances", "fetchExchangeBalances",
                              "fetchBlockchainBalances", "deleteXpub",
                              "addAccounts"}
       /\ isTaskRunning(Action(last'.act.name).type)
       /\ last'.act.name \in {"fetchExchangeBalances", "fetchBlockchainBalances"}
             => taskMetadata(Action(last'.act.name).type) = last'.act.arg
       => /\ last'.act.step = "skipped"
          /\ pending' = pending
          /\ tasks' = tasks
          /\ nextId' = nextId
          /\ handler' = handler
          /\ awaiting' = awaiting
          /\ last'.act.committed = {}
          /\ ~last'.act.notified
          /\ ~last'.act.rejected
      ]_vars

\* fetchExchangeBalances has been dispatched for the exchange whose balances
\* task is running, and has returned at once.
C17_Witness ==
    /\ last.op = "action"
    /\ last.act.step = "skipped"
    /\ last.act.name = "fetchExchangeBalances"
    /\ \E k \in DOMAIN tasks :
          tasks[k].type = "QUERY_EXCHANGE_BALANCES" /\ taskMeta[k] = last.act.arg

\* C18, as stated: a failure inside a balances store action (its API call
\* rejects, or its task completes with a failure) is caught inside the action:
\* the action's promise does not reject and the user is notified.
C18_FailureCaughtAndNotified ==
    last.act.failed => ~last.act.rejected /\ last.act.notified

\* C19, as stated: a balances store action that fails commits no mutation and
\* dispatches nothing that commits.
C19_FailureCommitsNothing ==
    last.act.failed => last.act.committed = {}

\* C20, as stated: a task-submitting action commits a result only after the
\* API call has returned its task's id, the task has been added to the
\* registry and that task has completed: when the action commits, its task
\* has been in the registry and is no longer pending there, and the result
\* committed is that task's.
C20_CommitAfterOwnCompletion ==
    /\ \A id \in DOMAIN awaiting : id < nextId
    /\ last.act.step = "completed" /\ last.act.task # Null =>
          /\ last.act.task < nextId
          /\ last.act.task \notin DOMAIN tasks
          /\ last.act.resultOf = last.act.task

\* C29: on a result the handler is invoked while the task is still in the
\* registry, and the task is removed once the handler has returned; on
\* not-found the task is unlocked and removed first, and the handler is
\* invoked with the not-found result only then.
C29_HandlerOrder ==
    /\ last.op = "result" =>
          /\ \A i \in 1..Len(last.made) : last.made[i].inRegistry
          /\ last.made # << >> /\ last.made[Len(last.made)].outcome = NoThrow
                => last.id \notin DOMAIN tasks
    /\ last.op = "notfound" =>
          /\ \A i \in 1..Len(last.made) : ~last.made[i].inRegistry
          /\ last.id \notin DOMAIN tasks
          /\ last.id \notin locked

\* A not-found answer has reached a handler, which found its task gone from
\* the registry.
C29_Witness ==
    /\ last.op = "notfound"
    /\ last.made # << >>
    /\ ~last.made[1].inRegistry
    /\ last.made[1].result.message = NotFoundMessage(LastTask)

\* C24: the handler registry holds one handler per key.  A registration under
\* a key that has a handler replaces it and touches no other key; the handler
\* invoked for a result is the one its key holds then, so of two
\* registrations for a key only the later one is invoked; and one
\* unregisterHandler for the key leaves no handler under it.
C24_OneHandlerPerKey ==
    /\ [](\A type \in TaskTypes, taskId \in {NoId} \cup Ids :
            LET key == Identifier(type, taskId)
                twice == registerHandler(registerHandler(handler, type, "h1", taskId),
                                         type, "h2", taskId)
            IN  /\ twice = [handler EXCEPT ![key] = "h2"]
                /\ unregisterHandler(twice, type, taskId)
                      = [handler EXCEPT ![key] = NoHandler])
    /\ [][/\ last'.act.step = "registered"
             /\ Action(last'.act.name).completion # "none"
             => LET a == Action(last'.act.name)
                    key == Identifier(a.type, CompletionKey(a, last'.act.task))
                IN  handler' = [handler EXCEPT ![key] = CompletionOf(last'.act.task)]
          /\ last'.op \in {"result", "notfound"} /\ last'.made # << >>
             => LET call == last'.made[1]
                IN  /\ call.handler = handler[call.key]
                    /\ handler' = [handler EXCEPT ![call.key] = NoHandler]
         ]_vars

\* Two actions registered their callbacks under the same key, and the result
\* that came was given to the later one while the earlier action still waits.
C24_Witness ==
    /\ last.op = "result"
    /\ last.made # << >>
    /\ last.made[1].handler = CompletionOf(2)
    /\ last.made[1].key = <<last.type, NoId>>
    /\ 1 \in DOMAIN awaiting
    /\ Action(awaiting[1].name).completion = "type"
    /\ Action(awaiting[1].name).type = last.type

\* C22: queryTaskResult settles in one of three ways: a 404 response rejects
\* with a TaskNotFoundError, a response without an outcome (the task is
\* pending) rejects with the plain Error 'No result', a response with an
\* outcome resolves with that outcome.  So a pending response is handled as a
\* failed poll: the task is kept and unlocked, and no handler is invoked.
C22_ThreeOutcomes ==
    /\ [](\A id \in Ids, response \in Responses :
            LET settled == queryTaskResult(id, response)
            IN  /\ settled.kind \in {"resolved", "Error", "TaskNotFoundError"}
                /\ settled.kind = "TaskNotFoundError" <=> response.status = 404
                /\ response.status = 200 /\ response.result.outcome = NullResult =>
                      settled.kind = "Error" /\ settled.message = <<"No result">>
                /\ response.status = 200 /\ response.result.outcome # NullResult =>
                      settled.kind = "resolved"
                      /\ settled.value = response.result.outcome)
    /\ [][\A task \in BagToSet(polls), o1 \in Outcomes, o2 \in Outcomes :
            Respond(task, Response(200, NullResult), o1, o2) =>
                /\ last'.op = "failed"
                /\ last'.made = << >>
                /\ tasks' = tasks
                /\ calls' = calls
                /\ notes' = notes
                /\ task.id \notin locked'
         ]_vars

\* The poll of a task has been answered without a result: the task is in the
\* registry, unlocked, and no handler has been invoked for it.
C22_Witness ==
    /\ last.op = "failed"
    /\ last.id \in DOMAIN tasks
    /\ last.id \notin locked
    /\ calls[last.id] = 0

\* C21: a task whose meta sets ignoreResult is removed from the registry by
\* the first result it receives (real or not-found); no handler is invoked
\* and no notification is emitted for it, whether or not a handler is
\* registered for its type.
C21_IgnoredResultDropped ==
    /\ [](last.op \in {"result", "notfound"} /\ last.ignoreResult =>
            /\ calls[last.id] = 0
            /\ notes[last.id] = 0
            /\ last.id \notin DOMAIN tasks
            /\ last.id \notin locked)
    /\ [][last'.op \in {"result", "notfound"} /\ last'.ignoreResult =>
            /\ last'.id \in DOMAIN tasks
            /\ last'.id \notin DOMAIN tasks'
            /\ last'.made = << >>
            /\ last'.act = NoAct
            /\ calls' = calls
            /\ notes' = notes
            /\ invalidNotes' = invalidNotes
         ]_vars

\* The result of a trade history task that sets ignoreResult has arrived
\* while the built-in handler is registered for its type: the task is gone
\* and the handler was not invoked.
C21_Witness ==
    /\ last.op = "result"
    /\ last.ignoreResult
    /\ last.type = "TRADE_HISTORY"
    /\ handler[<<"TRADE_HISTORY", NoId>>] = "onTradeHistory"
    /\ last.made = << >>
    /\ last.id \notin DOMAIN tasks

\* C27: the built-in onTradeHistory handler is registered for TRADE_HISTORY
\* from construction on.  Given a result with a message it emits one
\* notification and still commits the report with 'reports/set'; given a
\* result with an empty message it commits the report and emits nothing.
C27_TradeHistoryWarningTolerated ==
    /\ handler[<<"TRADE_HISTORY", NoId>>] = "onTradeHistory"
    /\ /\ last.op = "result"
       /\ last.type = "TRADE_HISTORY"
       /\ ~last.ignoreResult
       /\ last.made # << >>
       => /\ last.made[1].handler = "onTradeHistory"
          /\ last.made[1].result = last.result
          /\ last.made[1].outcome = NoThrow =>
                /\ Len(last.made) = 1
                /\ last.act.committed = {"reports/set"}
                /\ last.act.notifications =
                      IF last.result.message # EmptyMessage THEN 1 ELSE 0
                /\ notes[last.id] = 0
                /\ last.id \notin DOMAIN tasks

\* A trade history result with a warning has been handled: one notification,
\* and the report is committed.
C27_Witness ==
    /\ last.op = "result"
    /\ last.type = "TRADE_HISTORY"
    /\ last.result.message = <<"warning">>
    /\ Len(last.made) = 1
    /\ last.made[1].outcome = NoThrow
    /\ last.act.notifications = 1
    /\ last.act.committed = {"reports/set"}

\* C25, as stated: removeExchange commits 'removeExchange' only when the API
\* call resolved with true and the exchange is in connectedExchanges at that
\* moment.  If the API rejects, or the exchange is not in connectedExchanges,
\* connectedExchanges is unchanged, an error is shown and the action resolves
\* to false; if the API resolves false, nothing is committed and false is
\* returned.
C25_RemoveExchangeChecked ==
    [][last'.act.name = "removeExchange" /\ last'.act.step = "settled" =>
        LET connected == last'.act.arg \in Range(ConnectedExchanges(state))
        IN  /\ "removeExchange" \in last'.act.committed =>
                 last'.act.response = "true" /\ connected
            /\ last'.act.response = "rejected" \/ ~connected =>
                 /\ ConnectedExchanges(state') = ConnectedExchanges(state)
                 /\ last'.act.response # "false" => last'.act.notified
                 /\ last'.act.returned = "false"
            /\ last'.act.response = "false" =>
                 /\ last'.act.committed = {}
                 /\ last'.act.returned = "false"
     ]_vars

\* C26, as stated: whenever setupExchange resolves to false (the API call
\* rejected, or resolved with false), no 'addExchange' commit was made and no
\* fetchExchangeBalances was started.
C26_SetupOnlyOnSuccess ==
    last.act.name = "setupExchange" /\ last.act.step = "settled"
        /\ last.act.returned = "false" =>
            /\ "addExchange" \notin last.act.committed
            /\ last.act.dispatched = {}

\* C28, as stated: after the removeTag action for tag name T, every account
\* of the state (ETH accounts, standalone BTC accounts, xpubs and the
\* addresses under each xpub) has as tags its previous tags with T removed;
\* an account that did not carry T keeps exactly its previous tags, and no
\* other account field changes.
C28_TagRemovedEverywhere ==
    [][last'.act.name = "removeTag" =>
        LET T == last'.act.arg
            removed(tags) ==
                IF tags.null THEN tags
                ELSE Array(SelectSeq(tags.items, LAMBDA t : t # T))
            stripped(accounts) ==
                [i \in DOMAIN accounts |->
                    [accounts[i] EXCEPT !.tags = removed(@)]]
        IN  /\ state'.ethAccounts = stripped(state.ethAccounts)
            /\ state'.btcAccounts.standalone =
                   stripped(state.btcAccounts.standalone)
            /\ state'.btcAccounts.xpubs =
                   [i \in DOMAIN state.btcAccounts.xpubs |->
                       LET xpub == state.btcAccounts.xpubs[i]
                       IN  [xpub EXCEPT
                              !.tags = removed(@),
                              !.addresses =
                                  IF @.null THEN @
                                  ELSE Array(stripped(@.items))]]
     ]_vars

\* C30: updateBalances with chain ETH commits 'updateEth' and leaves the BTC
\* balances unchanged; with chain BTC it commits 'updateBtc' and leaves the
\* ETH balances unchanged; with no chain it commits both.  In every case
\* 'updateTotals' is committed, and a chain that is due for update but absent
\* from perAccount is committed as an empty balance map.
C30_UpdateBalancesByChain ==
    [][\A chain \in Chains, payload \in Payloads, accountsOk \in BOOLEAN,
          fetched \in Fetched :
          updateBalances(chain, payload, accountsOk, fetched) =>
            LET committed == last'.act.committed
                given(x) == IF x = Undefined THEN "{}" ELSE x
            IN  /\ chain = "ETH" =>
                     /\ "updateEth" \in committed
                     /\ "updateBtc" \notin committed
                     /\ state'.btc = state.btc
                /\ chain = "BTC" =>
                     /\ "updateBtc" \in committed
                     /\ "updateEth" \notin committed
                     /\ state'.eth = state.eth
                /\ chain = NoChain =>
                     {"updateEth", "updateBtc"} \subseteq committed
                /\ "updateEth" \in committed =>
                     state'.eth = given(payload.perAccount.ETH)
                /\ "updateBtc" \in committed =>
                     state'.btc = given(payload.perAccount.BTC)
                /\ "updateTotals" \in committed
                /\ state'.totals = payload.totals
     ]_vars

\* updateBalances has run for ETH with balances that have no ETH entry, after
\* BTC balances had been stored: the ETH balances are the empty map, the BTC
\* balances are the stored ones and the totals are committed.
C30_Witness ==
    /\ last.act.name = "updateBalances"
    /\ last.act.arg = "ETH"
    /\ last.act.committed \cap {"updateEth", "updateBtc", "updateTotals"}
           = {"updateEth", "updateTotals"}
    /\ state.eth = NoBalances
    /\ state.btc = "btc1"
    /\ state.totals = "totals2"

\* C23: login never resolves with an account state when the backend answers
\* with status 300: it rejects with a SyncConflictError that carries the
\* response's message and its payload with the keys in camelCase.  unlockUser
\* with create unset takes this login path; with create set it calls
\* registerUser and never login.
C23_SyncConflictOnLogin ==
    [][\A payload \in UnlockPayloads, response \in AccountResponses :
          UnlockUser(payload, response) =>
            LET settled == last'.act.settled
                called == last'.act.dispatched
            IN  /\ payload.create => called = {"registerUser"}
                /\ ~payload.create => called = {"login"}
                /\ ~payload.create /\ response.status = 300 =>
                     /\ settled.kind = "SyncConflictError"
                     /\ settled.message = response.message
                     /\ DOMAIN settled.payload \cap DOMAIN CamelCase = {}
                     /\ Cardinality(DOMAIN settled.payload)
                            = Cardinality(DOMAIN response.result)
                     /\ \A k \in DOMAIN response.result :
                            /\ CamelCase[k] \in DOMAIN settled.payload
                            /\ settled.payload[CamelCase[k]] = response.result[k]
     ]_vars

\* unlockUser without create has been answered with status 300: login was
\* called and rejected with a SyncConflictError whose payload has the
\* backend's values under camelCase keys.
C23_Witness ==
    /\ last.act.name = "unlockUser"
    /\ last.act.dispatched = {"login"}
    /\ last.act.settled.kind = "SyncConflictError"
    /\ last.act.settled.message = <<"remote is newer">>
    /\ last.act.settled.payload =
           [localSize |-> "1", remoteSize |-> "2", remoteLastModified |-> "3"]

\* C34: for every status of a section other than NONE, loading is false
\* exactly when the status is LOADED, PARTIALLY_LOADED or REFRESHING, and
\* refreshing is true exactly when the status is LOADING, REFRESHING or
\* PARTIALLY_LOADED, so that a LOADED section is neither loading nor
\* refreshing; reading either getter while the section is NONE fails the
\* assertion.
C34_LoadingAndRefreshing ==
    /\ view.section # SectionNone /\ view.status[view.section] = "LOADED" =>
          ~loading(view).value /\ ~refreshing(view).value
    /\ last.act.name \in {"loading", "refreshing"} =>
          IF view.section = SectionNone
          THEN last.act.failed /\ last.act.returned = ""
          ELSE LET status == view.status[view.section]
               IN  /\ ~last.act.failed
                   /\ last.act.returned \in {"true", "false"}
                   /\ last.act.name = "loading" =>
                        (last.act.returned = "false" <=>
                            status \in {"LOADED", "PARTIALLY_LOADED", "REFRESHING"})
                   /\ last.act.name = "refreshing" =>
                        (last.act.returned = "true" <=>
                            status \in {"LOADING", "REFRESHING", "PARTIALLY_LOADED"})

\* The loading getter has been read in a component whose section is being
\* refreshed: it is not loading.
C34_Witness ==
    /\ last.act.name = "loading"
    /\ view.section = "trades"
    /\ view.status["trades"] = "REFRESHING"
    /\ last.act.returned = "false"

\* C31, as stated: addAccounts issues an add-account request (one ADD_ACCOUNT
\* task each, awaited through a handler registered for the task's id) for
\* exactly those addresses of the payload that, compared without regard to
\* case, are not among the accounts tracked for the target blockchain; when
\* no address of the payload is new it emits one INFO notification, issues no
\* API call and adds no task.
C31_OnlyNewAccountsRequested ==
    [][/\ \A input \in AccountPayloads :
            AddAccounts(input[1], input[2]) /\ ~isTaskRunning("ADD_ACCOUNT") =>
              LET tracked == {toLocaleLowerCase(address) :
                                 address \in Tracked(state, input[1])}
                  new == {address \in Range(input[2]) :
                             toLocaleLowerCase(address) \notin tracked}
              IN  /\ last'.act.dispatched = new
                  /\ BagToSet(pending') \ BagToSet(pending) =
                         {add \in BagToSet(pending') :
                             add.arg = input[1] /\ add.address \in new}
                  /\ tasks' = tasks
                  /\ new = {} =>
                         /\ last'.act.notifications = 1
                         /\ last'.act.returned = "INFO"
                         /\ pending' = pending
                  /\ new # {} => last'.act.notifications = 0
       /\ \A add \in BagToSet(pending) :
            AdditionReturns(add) =>
              /\ DOMAIN tasks' \ DOMAIN tasks = {nextId}
              /\ tasks'[nextId].type = "ADD_ACCOUNT"
              /\ handler'[Identifier("ADD_ACCOUNT", nextId)] = CompletionOf(nextId)
              /\ awaiting'[nextId] = add
     ]_vars

\* C32: addAccounts starts all account additions at once; the failure of one
\* addition neither prevents nor cancels the others; 'defi/reset' followed by
\* resetDefiStatus happens once, when the last addition of the invocation has
\* settled (succeeded or failed), and not before.
C32_ResetAfterAllAdditions ==
    [][LET Settling(add) ==
               LET rest == Unsettled(add, pending', awaiting')
               IN  /\ rest = Unsettled(add, pending, awaiting) \ {add}
                   /\ "defi/reset" \in last'.act.committed <=> rest = {}
                   /\ "resetDefiStatus" \in last'.act.dispatched <=> rest = {}
       IN  /\ \A input \in AccountPayloads :
                AddAccounts(input[1], input[2]) /\ last'.act.step = "called" =>
                  /\ \A address \in last'.act.dispatched :
                        \E add \in BagToSet(pending') \ BagToSet(pending) :
                            add.arg = input[1] /\ add.address = address
                  /\ awaiting' = awaiting
                  /\ "defi/reset" \notin last'.act.committed
           /\ \A add \in BagToSet(pending) :
                AdditionRejects(add) => Settling(add)
           /\ \A add \in BagToSet(pending) :
                AdditionReturns(add) =>
                  /\ "defi/reset" \notin last'.act.committed
                  /\ Unsettled(add, pending', awaiting')
                        = Unsettled(add, pending, awaiting)
           /\ \A task \in BagToSet(polls) :
                /\ task.id \in DOMAIN awaiting
                /\ last'.op \in {"result", "notfound"}
                /\ last'.id = task.id
                => Settling(awaiting[task.id])
     ]_vars

\* The second addition of an invocation for two accounts has failed after
\* the first one succeeded: the balances of the first are stored and the
\* reset follows the failure.
C32_Witness ==
    /\ last.act.name = "addAccounts"
    /\ last.act.response = "0xcd"
    /\ last.act.failed
    /\ "defi/reset" \in last.act.committed
    /\ "resetDefiStatus" \in last.act.dispatched
    /\ state.eth = "eth1"
    /\ "0xab" \in Tracked(state, "ETH")

\* C33: the fetch action runs its steps strictly in sequence, each awaited
\* before the next starts: at any time at most one of the actions it has
\* dispatched is waiting for the backend, and the one waited for next comes
\* later in the order fetchExchangeRates, fetchBalances (with its accounts),
\* the exchanges of addExchanges in the order of the list,
\* fetchBlockchainBalances.  addExchanges is dispatched, and commits
\* connectedExchanges, when the steps before it are done and only if
\* exchanges are given; fetchBlockchainBalances is dispatched before fetch
\* returns if and only if newUser is false.
C33_FetchInSequence ==
    [][LET Waiting(pend, await) == BagToSet(pend) \cup Range(await)
           before == Waiting(pending, awaiting)
           after == Waiting(pending', awaiting')
           Names == {d.name : d \in last'.act.dispatched}
           Rank(s) ==
               CASE s.name = "fetchExchangeRates" -> 1
                 [] s.name = "fetchBalances" -> 2
                 [] s.name = "accounts" -> 3
                 [] s.name = "fetchExchangeBalances" ->
                       3 + IndexOf(s.payload.exchanges.items, s.arg)
                 [] s.name = "fetchBlockchainBalances" ->
                       4 + Len(s.payload.exchanges.items)
       IN  /\ BagCardinality(pending') + Cardinality(DOMAIN awaiting') <= 1
           /\ \A t \in after :
                 /\ t.name = "fetchBlockchainBalances" => ~t.payload.newUser
                 /\ t.name = "fetchExchangeBalances" =>
                       /\ ~t.payload.exchanges.null
                       /\ t.arg \in Range(t.payload.exchanges.items)
           /\ \A s \in before :
                 /\ \A t \in after :
                       /\ t.payload = s.payload
                       /\ t = s \/ Rank(s) < Rank(t)
                 /\ ("addExchanges" \in Names) =
                       /\ ~s.payload.exchanges.null
                       /\ Rank(s) <= 3
                       /\ \A t \in after : Rank(t) > 3
                 /\ "addExchanges" \in Names =>
                       /\ "connectedExchanges" \in last'.act.committed
                       /\ ConnectedExchanges(state') = s.payload.exchanges.items
                 /\ "addExchanges" \notin Names =>
                       /\ "connectedExchanges" \notin last'.act.committed
                       /\ state'.connectedExchanges = state.connectedExchanges
                 /\ "fetchBlockchainBalances" \in Names => ~s.payload.newUser
                 /\ (after = {} /\ ~s.payload.newUser) =>
                       \/ s.name = "fetchBlockchainBalances"
                       \/ "fetchBlockchainBalances" \in Names
      ]_vars

\* A fetch of a returning user with two exchanges has gone through all its
\* steps: the blockchain query, the last, has completed after the query of
\* the second exchange.
C33_Witness ==
    /\ last.act.name = "fetchBlockchainBalances"
    /\ last.act.step = "completed"
    /\ pending = EmptyBag
    /\ awaiting = << >>
    /\ ConnectedExchanges(state) = <<"kraken", "binance">>
    /\ state.totals = "totals1"
====
